---- MODULE Spec2Model ----
(***************************************************************************)
(* A model of the dashboard's Forecasts view, its multi-region view and    *)
(* its header (frontend/src/pages/Forecasts.jsx, components/Header.jsx,    *)
(* utils/alerts.js).                                                       *)
(*                                                                         *)
(* Numbers.  Every number of the program is a JavaScript Number, an IEEE   *)
(* 754 binary64 value, and the program rounds with Number.toFixed and      *)
(* Math.round, whose results at the halfway cases depend on the binary     *)
(* value.  The model therefore computes with binary64 values: a value is   *)
(* a record [sg, m, e] standing for sg * m * 2^e, where the significand m  *)
(* is an arbitrary-precision natural number of exactly 53 bits (or zero),  *)
(* kept as a little-endian sequence of 15-bit limbs, because the checker's *)
(* integers have 32 bits.  Decimal values that the program reads or shows  *)
(* are kept in the state as integers: thousandths for the values a         *)
(* backend returns, hundredths for the results of toFixed(2).              *)
(***************************************************************************)
EXTENDS Integers, Sequences, FiniteSets, TLC

(***************************************************************************)
(* Arbitrary-precision naturals.                                           *)
(***************************************************************************)
LimbBits == 15
Radix == 2^LimbBits

MinI(a, b) == IF a < b THEN a ELSE b
MaxI(a, b) == IF a > b THEN a ELSE b

Tl(a) == IF a = <<>> THEN <<>> ELSE Tail(a)
Limb(a, i) == IF i <= Len(a) THEN a[i] ELSE 0

RECURSIVE BTrim(_)
BTrim(a) ==
  IF a = <<>> THEN a
  ELSE IF a[Len(a)] = 0 THEN BTrim(SubSeq(a, 1, Len(a) - 1)) ELSE a

RECURSIVE BFromInt(_)
BFromInt(n) == IF n = 0 THEN <<>> ELSE <<n % Radix>> \o BFromInt(n \div Radix)

RECURSIVE BToInt(_)
BToInt(a) == IF a = <<>> THEN 0 ELSE a[1] + Radix * BToInt(Tail(a))

RECURSIVE BAddC(_, _, _)
BAddC(a, b, c) ==
  IF a = <<>> /\ b = <<>> THEN (IF c = 0 THEN <<>> ELSE <<c>>)
  ELSE LET s == Limb(a, 1) + Limb(b, 1) + c
       IN  <<s % Radix>> \o BAddC(Tl(a), Tl(b), s \div Radix)

BAdd(a, b) == BAddC(a, b, 0)

\* a - b - c for a >= b + c, limb by limb with a borrow
RECURSIVE BSubC(_, _, _)
BSubC(a, b, c) ==
  IF a = <<>> THEN <<>>
  ELSE LET s == a[1] - Limb(b, 1) - c
       IN  IF s < 0 THEN <<s + Radix>> \o BSubC(Tail(a), Tl(b), 1)
           ELSE <<s>> \o BSubC(Tail(a), Tl(b), 0)

BSub(a, b) == BTrim(BSubC(a, b, 0))

\* the order of a and b, from the top limb down: -1, 0 or 1
RECURSIVE BCmpFrom(_, _, _)
BCmpFrom(a, b, i) ==
  IF i = 0 THEN 0
  ELSE IF a[i] < b[i] THEN -1
  ELSE IF a[i] > b[i] THEN 1
  ELSE BCmpFrom(a, b, i - 1)

BCmp(a, b) ==
  IF Len(a) < Len(b) THEN -1
  ELSE IF Len(a) > Len(b) THEN 1
  ELSE BCmpFrom(a, b, Len(a))

\* a * k + c for a limb-sized k
RECURSIVE BMulSmallC(_, _, _)
BMulSmallC(a, k, c) ==
  IF a = <<>> THEN (IF c = 0 THEN <<>> ELSE <<c>>)
  ELSE LET s == a[1] * k + c
       IN  <<s % Radix>> \o BMulSmallC(Tail(a), k, s \div Radix)

BMulSmall(a, k) == IF k = 0 THEN <<>> ELSE BMulSmallC(a, k, 0)

RECURSIVE BMul(_, _)
BMul(a, b) ==
  IF a = <<>> \/ b = <<>> THEN <<>>
  ELSE LET rest == BMul(a, Tail(b))
       IN  BAdd(BMulSmall(a, b[1]), IF rest = <<>> THEN <<>> ELSE <<0>> \o rest)

Zeros(n) == [i \in 1..n |-> 0]

BShl(a, n) ==
  IF a = <<>> THEN <<>>
  ELSE Zeros(n \div LimbBits) \o BMulSmall(a, 2^(n % LimbBits))

\* floor(a / d) for a limb-sized d, from the top limb down
RECURSIVE BDivSmallFrom(_, _, _, _)
BDivSmallFrom(a, d, i, r) ==
  IF i = 0 THEN <<>>
  ELSE LET s == r * Radix + a[i]
       IN  BDivSmallFrom(a, d, i - 1, s % d) \o <<s \div d>>

BDivSmall(a, d) == BTrim(BDivSmallFrom(a, d, Len(a), 0))

\* a mod d for a limb-sized d
RECURSIVE BModSmallFrom(_, _, _, _)
BModSmallFrom(a, d, i, r) ==
  IF i = 0 THEN r ELSE BModSmallFrom(a, d, i - 1, (r * Radix + a[i]) % d)

BModSmall(a, d) == BModSmallFrom(a, d, Len(a), 0)

BShr(a, n) ==
  LET drop == n \div LimbBits
  IN  IF drop >= Len(a) THEN <<>>
      ELSE BDivSmall(SubSeq(a, drop + 1, Len(a)), 2^(n % LimbBits))

RECURSIVE IntBitLen(_)
IntBitLen(n) == IF n = 0 THEN 0 ELSE 1 + IntBitLen(n \div 2)

BBitLen(a) == IF a = <<>> THEN 0 ELSE (Len(a) - 1) * LimbBits + IntBitLen(a[Len(a)])

BIsOdd(a) == a # <<>> /\ a[1] % 2 = 1

\* long division by a divisor d of two limbs or more whose top limb has its
\* top bit set.  One limb of the quotient: the largest q <= qh with q * d <= r
RECURSIVE BQuotLimb(_, _, _)
BQuotLimb(r, d, qh) ==
  IF BCmp(BMulSmall(d, qh), r) > 0 THEN BQuotLimb(r, d, qh - 1) ELSE qh

\* the estimate of a quotient limb from the top two limbs of the running
\* remainder r and the top limb of d
BQuotGuess(r, d, n) ==
  MinI(Radix - 1, (Limb(r, n + 1) * Radix + Limb(r, n)) \div d[n])

BDivAppend(rest, q) == <<rest[1] \o <<q>>, rest[2]>>

\* limbs j .. 1 of a divided by d, given the remainder r of the limbs above
\* them: <<quotient limbs, remainder>>
RECURSIVE BDivLimbs(_, _, _, _)
BDivStep(a, d, j, r1, q) ==
  BDivAppend(BDivLimbs(a, d, j - 1, BSub(r1, BMulSmall(d, q))), q)

BDivNext(a, d, j, r1) == BDivStep(a, d, j, r1, BQuotLimb(r1, d, BQuotGuess(r1, d, Len(d))))

BDivLimbs(a, d, j, r) ==
  IF j = 0 THEN <<<<>>, r>> ELSE BDivNext(a, d, j, BTrim(<<a[j]>> \o r))

BDivUnshift(qr, sh) == <<BTrim(qr[1]), BShr(qr[2], sh)>>

BDivShifted(a1, d1, sh) == BDivUnshift(BDivLimbs(a1, d1, Len(a1), <<>>), sh)

BDivNormal(a, d, sh) == BDivShifted(BShl(a, sh), BShl(d, sh), sh)

\* <<floor(a / d), a mod d>> for a divisor of two limbs or more
BDivMod(a, d) == BDivNormal(a, d, LimbBits - IntBitLen(d[Len(d)]))

(***************************************************************************)
(* binary64 values and the operations of the language on them.             *)
(***************************************************************************)
MantBits == 53

DZero == [sg |-> 1, m |-> <<>>, e |-> 0]
DIsZero(x) == x.m = <<>>

\* a rounded significand q of 53 or 54 bits, brought to 53
DRoundNorm(sg, q, e) ==
  IF BBitLen(q) > MantBits
  THEN [sg |-> sg, m |-> BShr(q, 1), e |-> e + 1]
  ELSE [sg |-> sg, m |-> q, e |-> e]

\* the quotient q of n by 2^sh, rounded up or not as the remainder compares
\* (c) with half of 2^sh, ties to even
DRoundTie(sg, q, e, c) ==
  DRoundNorm(sg, IF c > 0 \/ (c = 0 /\ BIsOdd(q)) THEN BAdd(q, <<1>>) ELSE q, e)

DRoundCut(sg, n, e, sh, q) ==
  DRoundTie(sg, q, e + sh, BCmp(BSub(n, BShl(q, sh)), BShl(<<1>>, sh - 1)))

DRoundLen(sg, n, e, len) ==
  IF len <= MantBits
  THEN [sg |-> sg, m |-> BShl(n, MantBits - len), e |-> e - (MantBits - len)]
  ELSE DRoundCut(sg, n, e, len - MantBits, BShr(n, len - MantBits))

\* sg * n * 2^e rounded to the nearest binary64 value, ties to even
DRound(sg, n, e) == IF n = <<>> THEN DZero ELSE DRoundLen(sg, n, e, BBitLen(n))

\* twice the quotient, plus a sticky bit that records an inexact division
DSticky(q, inexact) == BAdd(BAdd(q, q), IF inexact THEN <<1>> ELSE <<>>)

\* the number of bits to shift n by for n / d to have at least 55 bits
DDivShift(n, d) == MaxI(0, MantBits + 2 + BBitLen(d) - BBitLen(n))

DDivQuot(sg, qr, e) == DRound(sg, DSticky(qr[1], qr[2] # <<>>), e)

DDivBy(sg, n, d, e, k) == DDivQuot(sg, BDivMod(BShl(n, k), d), e - k - 1)

\* sg * (n / d) * 2^e rounded to the nearest binary64 value, for a divisor
\* of two limbs or more
DDivBig(sg, n, d, e) == DDivBy(sg, n, d, e, DDivShift(n, d))

DDivSmallBy(sg, n1, d, e) ==
  DRound(sg, DSticky(BDivSmall(n1, d), BModSmall(n1, d) # 0), e)

\* sg * (n / d) * 2^e rounded to the nearest binary64 value, for a
\* limb-sized divisor d: n is shifted far enough for the quotient to have at
\* least 55 bits
DDivSmall(sg, n, d, e) ==
  DDivSmallBy(sg, BShl(n, MantBits + 2 + LimbBits), d, e - (MantBits + 2 + LimbBits) - 1)

Abs(i) == IF i < 0 THEN -i ELSE i
Sign(i) == IF i < 0 THEN -1 ELSE 1

\* the binary64 value nearest to the decimal n / d, d being 1, 10, 100 or
\* 1000: a numeric literal, a number parsed from a response, Number(string)
DFromRatio(n, d) ==
  IF n = 0 THEN DZero ELSE DDivSmall(Sign(n), BFromInt(Abs(n)), d, 0)

\* the binary64 value of an integer
DFromInt(n) == DRound(Sign(n), BFromInt(Abs(n)), 0)

DNeg(x) == IF DIsZero(x) THEN x ELSE [x EXCEPT !.sg = -x.sg]

DMul(x, y) ==
  IF DIsZero(x) \/ DIsZero(y) THEN DZero
  ELSE DRound(x.sg * y.sg, BMul(x.m, y.m), x.e + y.e)

DDiv(x, y) ==
  IF DIsZero(x) THEN DZero
  ELSE DDivBig(x.sg * y.sg, x.m, y.m, x.e - y.e)

\* the sum of sx * nx and sy * ny, times 2^em, c being the order of nx and ny
DAddOrdered(sx, nx, sy, ny, em, c) ==
  IF sx # sy /\ c = 0 THEN DZero
  ELSE DRound(IF sx = sy \/ c > 0 THEN sx ELSE sy,
              IF sx = sy THEN BAdd(nx, ny)
              ELSE IF c > 0 THEN BSub(nx, ny) ELSE BSub(ny, nx),
              em)

DAddMant(sx, nx, sy, ny, em) == DAddOrdered(sx, nx, sy, ny, em, BCmp(nx, ny))

DAddAligned(x, y, em) ==
  DAddMant(x.sg, BShl(x.m, x.e - em), y.sg, BShl(y.m, y.e - em), em)

DAdd(x, y) ==
  IF DIsZero(x) THEN y
  ELSE IF DIsZero(y) THEN x
  ELSE DAddAligned(x, y, MinI(x.e, y.e))

DSub(x, y) == DAdd(x, DNeg(y))

DCmpAligned(x, y, em) == x.sg * BCmp(BShl(x.m, x.e - em), BShl(y.m, y.e - em))

\* the order of x and y: -1, 0 or 1
DCmp(x, y) ==
  IF DIsZero(x) /\ DIsZero(y) THEN 0
  ELSE IF DIsZero(x) THEN -y.sg
  ELSE IF DIsZero(y) THEN x.sg
  ELSE IF x.sg # y.sg THEN x.sg
  ELSE DCmpAligned(x, y, MinI(x.e, y.e))

DLt(x, y) == DCmp(x, y) < 0
DGt(x, y) == DCmp(x, y) > 0
DGe(x, y) == DCmp(x, y) >= 0
DEq(x, y) == DCmp(x, y) = 0

DMax(x, y) == IF DGt(y, x) THEN y ELSE x
DMin(x, y) == IF DLt(y, x) THEN y ELSE x

\* floor(n * 2^e + 1/2) for a natural n, as an integer
BRoundHalfUp(n, e) ==
  IF e >= 0 THEN BToInt(BShl(n, e))
  ELSE BToInt(BShr(BAdd(BShl(n, 1), BShl(<<1>>, -e)), 1 - e))

\* floor(|x| * k + 1/2) for a limb-sized k, as an integer
RoundHalfUpAbs(x, k) ==
  IF DIsZero(x) THEN 0 ELSE BRoundHalfUp(BMulSmall(x.m, k), x.e)

\* ceiling(n * 2^e - 1/2) for a natural n and e < 0, as an integer
BRoundHalfDown(two, one, e) ==
  IF BCmp(two, one) <= 0 THEN 0
  ELSE BToInt(BShr(BAdd(BSub(two, one), BSub(BShl(<<1>>, 1 - e), <<1>>)), 1 - e))

\* ceiling(|x| - 1/2), as an integer
RoundHalfDownAbs(x) ==
  IF DIsZero(x) THEN 0
  ELSE IF x.e >= 0 THEN BToInt(BShl(x.m, x.e))
  ELSE BRoundHalfDown(BShl(x.m, 1), BShl(<<1>>, -x.e), x.e)

\* x.toFixed(2), as the integer number of hundredths its digits spell: the n
\* with n / 100 nearest to x, the larger in magnitude of two equally near
ToFixed2(x) == x.sg * RoundHalfUpAbs(x, 100)

\* Number(x.toFixed(2))
NumFixed2(x) == DFromRatio(ToFixed2(x), 100)

\* Math.round(x): floor(x + 1/2)
MathRound(x) == IF x.sg > 0 THEN RoundHalfUpAbs(x, 1) ELSE -RoundHalfDownAbs(x)

\* the Number a decimal numeral with three fractional digits spells: a value
\* parsed from a response, a function argument, a slider position
Num(j) == DFromRatio(j, 1000)

(***************************************************************************)
(* Forecasts view: the pure helpers.                                       *)
(***************************************************************************)

\* a variant of getRisk whose first comparison is strict
getRiskStrict(forecast, capacity) ==
  LET gap == DSub(capacity, forecast)
  IN  IF DGt(gap, DMul(DFromRatio(1, 10), forecast)) THEN "Sufficient"
      ELSE IF DLt(gap, DMul(DNeg(DFromRatio(5, 100)), forecast)) THEN "Shortage"
      ELSE "Over / Slight risk"

\* getRisk(forecast, capacity), Forecasts.jsx lines 123-128
getRisk(forecast, capacity) ==
  LET gap == DSub(capacity, forecast)
  IN  IF DGe(gap, DMul(DFromRatio(1, 10), forecast)) THEN "Sufficient"
      ELSE IF DLt(gap, DMul(DNeg(DFromRatio(5, 100)), forecast)) THEN "Shortage"
      ELSE "Over / Slight risk"

\* Option values: null or undefined is <<>>, a value v is <<v>>
Null == <<>>
Some(v) == <<v>>
IsNull(o) == o = <<>>
Val(o) == o[1]

\* arr.map(f): MapSeq(Op, arr)
MapSeq(Op(_), arr) == [i \in 1..Len(arr) |-> Op(arr[i])]

\* arr.slice(0, n)
SliceTo(arr, n) == SubSeq(arr, 1, MinI(n, Len(arr)))

\* Array(7).fill(0)
ZeroFill == [i \in 1..7 |-> DZero]

\* Number(Number(v).toFixed(2)), line 95
CpuOf(v) == NumFixed2(v)

\* a variant of StorageOf that scales by 0.1 instead of 0.01
StorageOfTenth(cpu) == NumFixed2(DMul(DMul(cpu, DFromRatio(1, 10)), DFromRatio(25, 10)))

\* Number((cpu * 0.01 * 2.5).toFixed(2)), lines 97-98
StorageOf(cpu) == NumFixed2(DMul(DMul(cpu, DFromRatio(1, 100)), DFromRatio(25, 10)))

\* Number((cpu * 10).toFixed(2)), lines 99-100
NetworkOf(cpu) == NumFixed2(DMul(cpu, DFromInt(10)))

\* a variant of SharePie that divides by the last forecast value itself
SharePieUnfloored(current, forecast, floor) ==
  LET last        == forecast[Len(forecast)]
      next        == IF DIsZero(last) THEN current ELSE last
      usedPercent == DFromInt(MathRound(DMul(DDiv(current, next), DFromInt(100))))
  IN  [Used      |-> DMin(DFromInt(100), usedPercent),
       Remaining |-> DMax(DZero, DSub(DFromInt(100), usedPercent))]

\* the pie of the storage and network metrics, lines 103-104: floor is 0.1 for
\* storage and 1 for network
SharePie(current, forecast, floor) ==
  LET last        == forecast[Len(forecast)]
      next        == IF DIsZero(last) THEN current ELSE last
      usedPercent == DFromInt(MathRound(DMul(DDiv(current, DMax(floor, next)), DFromInt(100))))
  IN  [Used      |-> DMin(DFromInt(100), usedPercent),
       Remaining |-> DMax(DZero, DSub(DFromInt(100), usedPercent))]

EmptyPie == [Used |-> DZero, Remaining |-> DFromInt(100)]

\* the metrics memo, lines 87-106, of the stored forecastData (an Option)
Metrics(fd) ==
  IF IsNull(fd) \/ Len(Val(fd)) = 0
  THEN << [id |-> "cpu", title |-> "CPU Demand", unit |-> "%",
           current |-> DZero, forecast |-> ZeroFill, pie |-> EmptyPie],
          [id |-> "storage", title |-> "Storage Usage", unit |-> "TB",
           current |-> DZero, forecast |-> ZeroFill, pie |-> EmptyPie],
          [id |-> "network", title |-> "Network Bandwidth", unit |-> "Mbps",
           current |-> DZero, forecast |-> ZeroFill, pie |-> EmptyPie] >>
  ELSE LET cpuForecast     == MapSeq(CpuOf, SliceTo(Val(fd), 7))
           cpuCurrent      == cpuForecast[1]
           storageCurrent  == StorageOf(cpuCurrent)
           storageForecast == MapSeq(StorageOf, cpuForecast)
           netCurrent      == NetworkOf(cpuCurrent)
           netForecast     == MapSeq(NetworkOf, cpuForecast)
       IN  << [id |-> "cpu", title |-> "CPU Demand", unit |-> "%",
               current |-> cpuCurrent, forecast |-> cpuForecast,
               pie |-> [Used      |-> cpuCurrent,
                        Remaining |-> DMax(DZero, DSub(DFromInt(100), cpuCurrent))]],
              [id |-> "storage", title |-> "Storage Usage", unit |-> "TB",
               current |-> storageCurrent, forecast |-> storageForecast,
               pie |-> SharePie(storageCurrent, storageForecast, DFromRatio(1, 10))],
              [id |-> "network", title |-> "Network Bandwidth", unit |-> "Mbps",
               current |-> netCurrent, forecast |-> netForecast,
               pie |-> SharePie(netCurrent, netForecast, DFromInt(1))] >>

\* arr[arr.length - 1] of a non-empty array
Last(arr) == arr[Len(arr)]

\* the array without its i-th entry
RemoveAt(arr, i) == SubSeq(arr, 1, i - 1) \o SubSeq(arr, i + 1, Len(arr))

\* a list parsed from a response: its numerals (in thousandths) as Numbers
NumList(o) == IF IsNull(o) THEN Null ELSE Some(MapSeq(Num, Val(o)))

\* a field parsed from a response
NumField(o) == IF IsNull(o) THEN Null ELSE Some(Num(Val(o)))

\* a || b on Numbers, where a may be undefined: b when a is undefined or 0
OrElse(o, b) == IF IsNull(o) \/ DIsZero(Val(o)) THEN b ELSE Val(o)

\* a variant of Coalesce that also passes over a 0, as a || b does
CoalesceOrZero(o, b) == IF IsNull(o) \/ DIsZero(Val(o)) THEN b ELSE Val(o)

\* a ?? b: b when a is undefined
Coalesce(o, b) == IF IsNull(o) THEN b ELSE Val(o)

\* arr[i] of a 0-based index that may lie past the end
At(arr, idx) == IF idx + 1 <= Len(arr) THEN Some(arr[idx + 1]) ELSE Null

\* a fallback table whose fourth week has less capacity than the built-in
\* one: what the properties of the fallback rows must tell apart from
\* generateCapacityData
generateCapacityDataShort ==
  LET base == 120
  IN  << [date |-> "Week 1", forecast |-> base, capacity |-> base + 35,
          lower |-> base - 20, upper |-> base + 15],
         [date |-> "Week 2", forecast |-> base + 15, capacity |-> base + 20,
          lower |-> base - 10, upper |-> base + 25],
         [date |-> "Week 3", forecast |-> base + 30, capacity |-> base + 30,
          lower |-> base, upper |-> base + 35],
         [date |-> "Week 4", forecast |-> base + 50, capacity |-> base + 40,
          lower |-> base + 10, upper |-> base + 45] >>

\* generateCapacityData(), lines 45-53
generateCapacityData ==
  LET base == 120
  IN  << [date |-> "Week 1", forecast |-> base, capacity |-> base + 35,
          lower |-> base - 20, upper |-> base + 15],
         [date |-> "Week 2", forecast |-> base + 15, capacity |-> base + 20,
          lower |-> base - 10, upper |-> base + 25],
         [date |-> "Week 3", forecast |-> base + 30, capacity |-> base + 30,
          lower |-> base, upper |-> base + 35],
         [date |-> "Week 4", forecast |-> base + 50, capacity |-> base + 45,
          lower |-> base + 10, upper |-> base + 45] >>

\* one row of the fallback table, line 133
FallbackRow(d) ==
  LET forecast == DFromInt(d.forecast)
      capacity == DFromInt(d.capacity)
  IN  [date |-> d.date, forecast |-> forecast, capacity |-> capacity,
       lower |-> DFromInt(d.lower), upper |-> DFromInt(d.upper),
       gap |-> DSub(capacity, forecast),
       status |-> getRisk(forecast, capacity),
       band |-> DFromInt(MathRound(DMul(forecast, DFromRatio(3, 10))))]

Weeks == <<"Week 1", "Week 2", "Week 3", "Week 4">>

\* a row whose gap and status are computed from the forecast as the row
\* shows it: what the properties of the rows must tell apart from WeekRow
WeekRowOfShown(week, idx, fd, capacity, avgForecast) ==
  LET forecast     == NumFixed2(OrElse(At(fd, idx), avgForecast))
      weekCapacity == DAdd(capacity, DFromInt(idx * 100))
  IN  [date |-> week, forecast |-> forecast, capacity |-> weekCapacity,
       lower |-> NumFixed2(DMul(forecast, DFromRatio(85, 100))),
       upper |-> NumFixed2(DMul(forecast, DFromRatio(115, 100))),
       band |-> NumFixed2(DMul(forecast, DFromRatio(3, 10))),
       gap |-> DSub(weekCapacity, forecast),
       status |-> getRisk(forecast, weekCapacity)]

\* one row computed from the fetched data, lines 139-141; idx is 0-based
WeekRow(week, idx, fd, capacity, avgForecast) ==
  LET forecast     == OrElse(At(fd, idx), avgForecast)
      weekCapacity == DAdd(capacity, DFromInt(idx * 100))
  IN  [date |-> week, forecast |-> NumFixed2(forecast), capacity |-> weekCapacity,
       lower |-> NumFixed2(DMul(forecast, DFromRatio(85, 100))),
       upper |-> NumFixed2(DMul(forecast, DFromRatio(115, 100))),
       band |-> NumFixed2(DMul(forecast, DFromRatio(3, 10))),
       gap |-> NumFixed2(DSub(weekCapacity, forecast)),
       status |-> getRisk(forecast, weekCapacity)]

\* the capacityRows memo, lines 130-143, of the stored capacityData and
\* forecastData (Options; the fields of capacityData are Options too)
CapacityRows(cd, fd) ==
  IF IsNull(cd) \/ IsNull(fd)
  THEN MapSeq(FallbackRow, generateCapacityData)
  ELSE LET capacity    == OrElse(Val(cd).capacity, DFromInt(10000))
           avgForecast == OrElse(Val(cd).avg_forecast, DZero)
       IN  [i \in 1..4 |-> WeekRow(Weeks[i], i - 1, Val(fd), capacity, avgForecast)]

\* metrics.find((m) => m.id === id); the three ids are always present
FindMetric(ms, id) == ms[CHOOSE i \in 1..Len(ms) : ms[i].id = id]

\* capacityRows.find((r) => r.date === date)
FindRow(rows, date) == rows[CHOOSE i \in 1..Len(rows) : rows[i].date = date]

\* a variant of getCapacityRecommendation whose first test is strict
getCapacityRecommendationStrict(args) ==
  LET resource    == args.resource
      forecastPct == args.forecastPct
      out == IF DGt(forecastPct, DFromInt(85))
             THEN [level |-> "High Load", delta |-> 12,
                   text |-> "Increase " \o resource \o " capacity by +"
                              \o ToString(12) \o "%"]
             ELSE IF DCmp(forecastPct, DFromInt(50)) <= 0
             THEN [level |-> "Low Load", delta |-> 15,
                   text |-> "Consider reducing " \o resource \o " capacity by -"
                              \o ToString(15) \o "% to save cost"]
             ELSE [level |-> "Moderate Load", delta |-> 0,
                   text |-> "Keep " \o resource
                              \o " capacity steady and monitor usage"]
  IN  [region |-> args.region, resource |-> resource,
       forecastPct |-> forecastPct, level |-> out.level, delta |-> out.delta,
       text |-> out.text]

\* getCapacityRecommendation({ region, resource, forecastPct }), lines 27-43
getCapacityRecommendation(args) ==
  LET resource    == args.resource
      forecastPct == args.forecastPct
      out == IF DGe(forecastPct, DFromInt(85))
             THEN [level |-> "High Load", delta |-> 12,
                   text |-> "Increase " \o resource \o " capacity by +"
                              \o ToString(12) \o "%"]
             ELSE IF DCmp(forecastPct, DFromInt(50)) <= 0
             THEN [level |-> "Low Load", delta |-> 15,
                   text |-> "Consider reducing " \o resource \o " capacity by -"
                              \o ToString(15) \o "% to save cost"]
             ELSE [level |-> "Moderate Load", delta |-> 0,
                   text |-> "Keep " \o resource
                              \o " capacity steady and monitor usage"]
  IN  [region |-> args.region, resource |-> resource,
       forecastPct |-> forecastPct, level |-> out.level, delta |-> out.delta,
       text |-> out.text]

\* a filter that selects the metric named by each service: what the
\* properties of the service filter must tell apart from FilteredMetrics
FilteredMetricsByService(ms, service) ==
  IF service = "" THEN ms
  ELSE IF service = "Compute" THEN SelectSeq(ms, LAMBDA m : m.id = "cpu")
  ELSE IF service = "Storage" THEN SelectSeq(ms, LAMBDA m : m.id = "storage")
  ELSE SelectSeq(ms, LAMBDA m : m.id = "network")

\* the filteredMetrics memo, lines 110-113
FilteredMetrics(ms, service) ==
  IF service = "" THEN ms
  ELSE IF service = "Compute" THEN SelectSeq(ms, LAMBDA m : m.id = "cpu")
  ELSE IF service = "Storage" THEN SelectSeq(ms, LAMBDA m : m.id = "storage")
  ELSE SelectSeq(ms, LAMBDA m : m.id # "")

\* a Next button without the wrap-around
NextSlideNoWrap(p, len) == p + 1

\* the argument of nextSlide's update, line 117
NextSlideOf(p, len) == (p + 1) % len

\* the argument of prevSlide's update, line 118
PrevSlideOf(p, len) == (p - 1 + len) % len

\* forecastData.reduce((a, b) => a + b, 0), line 151
RECURSIVE SumFrom(_, _, _)
SumFrom(arr, i, acc) ==
  IF i > Len(arr) THEN acc ELSE SumFrom(arr, i + 1, DAdd(acc, arr[i]))

\* the capacity argument of fetchOptimization, lines 151-152
OptCapacity(fd) == MathRound(DMul(DDiv(SumFrom(fd, 1, DZero), DFromInt(Len(fd))), DFromInt(100)))

\* the last entry of a series of the stored what-if response, lines 198-199:
\* undefined when there is no response, no such series or an empty one
BackendLast(be, field) ==
  IF IsNull(be) THEN Null
  ELSE LET series == Val(be)[field]
       IN  IF IsNull(series) \/ Len(Val(series)) = 0 THEN Null
           ELSE Some(Num(Last(Val(series))))

\* a variant of Simulated that takes delta for a fraction, not a percentage
SimulatedByFraction(base, delta) ==
  NumFixed2(DMul(base, DAdd(DFromInt(1), DFromInt(delta))))

\* base * (1 + delta / 100) as toFixed(2) leaves it, lines 194-197
Simulated(base, delta) ==
  NumFixed2(DMul(base, DAdd(DFromInt(1), DDiv(DFromInt(delta), DFromInt(100)))))

\* a variant of WhatIfResults that scales storage by the workload slider too
WhatIfResultsOneSlider(ms, wDelta, tDelta, be) ==
  LET baseCpu     == Last(FindMetric(ms, "cpu").forecast)
      baseStorage == Last(FindMetric(ms, "storage").forecast)
  IN  [baseCpu |-> baseCpu, baseStorage |-> baseStorage,
       simulatedCpu     |-> Coalesce(BackendLast(be, "simulated_cpu"),
                                     Simulated(baseCpu, wDelta)),
       simulatedStorage |-> Coalesce(BackendLast(be, "simulated_storage"),
                                     Simulated(baseStorage, wDelta))]

\* the whatIfResults memo, lines 188-201
WhatIfResults(ms, wDelta, tDelta, be) ==
  LET baseCpu     == Last(FindMetric(ms, "cpu").forecast)
      baseStorage == Last(FindMetric(ms, "storage").forecast)
  IN  [baseCpu |-> baseCpu, baseStorage |-> baseStorage,
       simulatedCpu     |-> Coalesce(BackendLast(be, "simulated_cpu"),
                                     Simulated(baseCpu, wDelta)),
       simulatedStorage |-> Coalesce(BackendLast(be, "simulated_storage"),
                                     Simulated(baseStorage, tDelta))]

\* a variant of AlertToasts whose CPU test is not strict
AlertToastsAtThreshold(rows, ms) ==
  LET week4       == FindRow(rows, "Week 4")
      nextWeekCpu == Last(FindMetric(ms, "cpu").forecast)
      cpuThreshold == DFromInt(80)
  IN  (IF week4.status = "Shortage"
       THEN << [resource |-> "Capacity (Week 4)", usage |-> week4.forecast,
                threshold |-> week4.capacity] >>
       ELSE << >>)
      \o
      (IF DGe(nextWeekCpu, cpuThreshold)
       THEN << [resource |-> "CPU (next week)", usage |-> nextWeekCpu,
                threshold |-> cpuThreshold] >>
       ELSE << >>)

\* what one run of the alert effect raises, lines 237-250, as the arguments
\* of its showHighRiskAlert calls in order
AlertToasts(rows, ms) ==
  LET week4       == FindRow(rows, "Week 4")
      nextWeekCpu == Last(FindMetric(ms, "cpu").forecast)
      cpuThreshold == DFromInt(80)
  IN  (IF week4.status = "Shortage"
       THEN << [resource |-> "Capacity (Week 4)", usage |-> week4.forecast,
                threshold |-> week4.capacity] >>
       ELSE << >>)
      \o
      (IF DGt(nextWeekCpu, cpuThreshold)
       THEN << [resource |-> "CPU (next week)", usage |-> nextWeekCpu,
                threshold |-> cpuThreshold] >>
       ELSE << >>)

\* a variant of ToggleRegion without the test of line 590,
\* that appends the name whether or not it is selected
ToggleRegionAppendOnly(prev, name) == Append(prev, name)

\* a variant of ToggleRegion that selects the added name alone
ToggleRegionSelectOnly(prev, name) ==
  IF \E i \in 1..Len(prev) : prev[i] = name
  THEN SelectSeq(prev, LAMBDA r : r # name)
  ELSE << name >>

\* handleToggleRegion's update of selectedRegions, lines 589-593
ToggleRegion(prev, name) ==
  IF \E i \in 1..Len(prev) : prev[i] = name
  THEN SelectSeq(prev, LAMBDA r : r # name)
  ELSE Append(prev, name)

\* the selected regions looked up one by one, in the order of their
\* selection: what the properties of the visible regions must tell apart
\* from VisibleRegions
VisibleRegionsBySelection(all, selected) ==
  LET found == SelectSeq(selected, LAMBDA n : \E i \in 1..Len(all) : all[i].name = n)
  IN  [k \in 1..Len(found) |->
         all[CHOOSE i \in 1..Len(all) : all[i].name = found[k]]]

\* the visibleRegions of the multi-region view, lines 584-586
VisibleRegions(all, selected) ==
  SelectSeq(all, LAMBDA r : \E i \in 1..Len(selected) : selected[i] = r.name)

(***************************************************************************)
(* State.                                                                  *)
(*                                                                         *)
(* The Forecasts component: its useState cells, the position of its load   *)
(* sequence, the optimization and what-if requests in flight (in issue     *)
(* order; each may settle at any time), the toasts raised so far and the   *)
(* counts of effect runs and of requests made.  Every stored response      *)
(* carries the request it answers.  The memo values of the component       *)
(* (metrics,                                                               *)
(* capacityRows, filteredMetrics, whatIfResults) are functions of these    *)
(* cells and are defined below as such.                                    *)
(*                                                                         *)
(* The MultiRegionDashboard component: its useState cells and the position *)
(* of its load.                                                            *)
(*                                                                         *)
(* page tells which component is mounted; the cells of a component that is *)
(* not mounted hold Unmounted.  fnArgs and fnResult hold one call of a     *)
(* The Header component: its useState cells, the fetchAlerts requests in    *)
(* flight and the count of those made.                                     *)
(*                                                                         *)
(* pure function and its result, for the specifications that exercise a    *)
(* function on its own.                                                    *)
(***************************************************************************)
VARIABLES page, fnArgs, fnResult
VARIABLES filters, currentSlide, visibleLines, workloadDelta, trafficDelta, forecastData,
          capacityData, isLoading, error, optimizationData, whatIfBackend
VARIABLES loadPc, optRequests, whatIfRequests, toasts, alertRuns, fetchCount
VARIABLES allRegions, selectedRegions, mrIsLoading, mrError, horizonSteps,
          detailRegion, mrLoadPc
VARIABLES showNotifications, notifications, notifLoading, alertRequests,
          alertFetchCount

fnVars == <<fnArgs, fnResult>>

\* the cells the filter form, the slide buttons and the chart's checkboxes
\* write
slideVars == <<filters, currentSlide, visibleLines>>

\* the cells the load sequence writes
loadVars == <<forecastData, capacityData, isLoading, error, loadPc, fetchCount>>

\* what the alert effect leaves behind
alertVars == <<toasts, alertRuns>>

\* the optimization request and its response
optVars == <<optimizationData, optRequests>>

\* the what-if sliders, requests and response
whatIfVars == <<workloadDelta, trafficDelta, whatIfBackend, whatIfRequests>>

viewVars == <<slideVars, loadVars, alertVars, optVars, whatIfVars>>

mrVars == <<allRegions, selectedRegions, mrIsLoading, mrError, horizonSteps,
            detailRegion, mrLoadPc>>

hdVars == <<showNotifications, notifications, notifLoading, alertRequests,
            alertFetchCount>>

vars == <<page, fnVars, viewVars, mrVars, hdVars>>

\* what a step of the Forecasts component leaves alone
OutsideView == UNCHANGED <<page, fnVars, mrVars, hdVars>>

\* what a step of the MultiRegionDashboard component leaves alone
OutsideMultiRegion == UNCHANGED <<page, fnVars, viewVars, hdVars>>

\* what a step of the Header component leaves alone
OutsideHeader == UNCHANGED <<page, fnVars, viewVars, mrVars>>

Unmounted == "unmounted"

\* no function is being exercised
FnIdle == fnArgs = Unmounted /\ fnResult = Unmounted

\* the Forecasts component is not mounted
ViewIdle ==
  /\ filters = Unmounted /\ currentSlide = Unmounted
  /\ visibleLines = Unmounted
  /\ workloadDelta = Unmounted /\ trafficDelta = Unmounted
  /\ forecastData = Unmounted /\ capacityData = Unmounted
  /\ isLoading = Unmounted /\ error = Unmounted
  /\ optimizationData = Unmounted /\ whatIfBackend = Unmounted
  /\ loadPc = Unmounted /\ optRequests = Unmounted /\ whatIfRequests = Unmounted
  /\ toasts = Unmounted /\ alertRuns = Unmounted /\ fetchCount = Unmounted

\* the MultiRegionDashboard component is not mounted
MultiRegionIdle ==
  /\ allRegions = Unmounted /\ selectedRegions = Unmounted
  /\ mrIsLoading = Unmounted /\ mrError = Unmounted
  /\ horizonSteps = Unmounted /\ detailRegion = Unmounted /\ mrLoadPc = Unmounted

\* the Header component is not mounted
HeaderIdle ==
  /\ showNotifications = Unmounted /\ notifications = Unmounted
  /\ notifLoading = Unmounted /\ alertRequests = Unmounted
  /\ alertFetchCount = Unmounted

(***************************************************************************)
(* What the environment may supply.                                        *)
(***************************************************************************)

\* prediction lists (in thousandths): one whose last entry is above 80 and
\* whose fourth exceeds a small capacity; one of eight entries with a zero,
\* whose seventh rounds to exactly 80.00 and whose eighth is above 80
PredHigh == <<62500, 71250, 80005, 400000, 79000, 80000, 85500>>
PredLong == <<40000, 42000, 44000, 0, 46000, 48000, 80004, 90000>>

\* responses of fetchForecast7: either field may be missing
ForecastResponses ==
  { [predictions |-> Some(PredHigh), predictions_cpu |-> Some(PredLong)],
    [predictions |-> Null, predictions_cpu |-> Some(PredLong)],
    [predictions |-> Null, predictions_cpu |-> Null] }

\* responses of fetchCapacityPlanning (fields in thousandths, or missing)
CapacityResponses ==
  { [capacity |-> Some(50000), avg_forecast |-> Some(60500)],
    [capacity |-> Null, avg_forecast |-> Null] }

\* err.message of a failed request
ErrorMessages == {"Network Error"}

\* the values the filter form submits; "" is a field left unset
Regions == {"", "West-US"}
Services == {"", "Compute", "Storage", "Network"}
FilterValues == [region : Regions, service : Services, timeHorizon : {""}]

\* the chart line whose checkbox is tried, line 404
LineKeys == {"cpuSim"}

\* the slider positions tried, within the sliders' range -30..50 (lines 375,
\* 387)
SliderMin == -30
SliderMax == 50
WorkloadValues == {0, 20}
TrafficValues == {SliderMin, 0}

\* at most this many what-if requests, and this many optimization requests,
\* are issued in one run
MaxWhatIfRequests == 3
MaxOptRequests == 2

\* responses of fetchWhatIf to a request: a CPU series and no storage series,
\* or an empty CPU series and a storage series that ends in 0
WhatIfShapes == {"cpuOnly", "storageOnly"}

WhatIfResponse(req, shape) ==
  [req |-> req,
   simulated_cpu |->
     IF shape = "cpuOnly" THEN Some(<<55000, 61237 + 10 * req.workload>>) ELSE Some(<<>>),
   simulated_storage |->
     IF shape = "cpuOnly" THEN Null ELSE Some(<<1400 + req.traffic, 0>>)]

\* responses of fetchOptimization to a request: with or without a
\* recommendation
OptShapes == {"advice", "blank"}

OptResponse(req, shape) ==
  [req |-> req,
   status |-> IF shape = "advice" THEN "High Load" ELSE "",
   suggested_change |-> IF shape = "advice" THEN 12 ELSE 0,
   recommendation |-> IF shape = "advice" THEN "Scale out" ELSE ""]

\* region lists of fetchMultiRegion's responses (cpuUsage in thousandths)
RegionEastUS == [name |-> "East US", cpuUsage |-> 71500]
RegionWestEurope == [name |-> "West Europe", cpuUsage |-> 64250]
RegionAsia == [name |-> "Southeast Asia", cpuUsage |-> 58000]
RegionIndia == [name |-> "Central India", cpuUsage |-> 49750]

MultiRegionResponses ==
  { [regions |-> Some(<<RegionEastUS, RegionWestEurope, RegionAsia>>)],
    [regions |-> Some(<<RegionIndia, RegionEastUS>>)],
    [regions |-> Some(<<RegionIndia>>)],
    [regions |-> Null] }

HorizonChoices == {2, 3, 4}

(***************************************************************************)
(* The memo values of the Forecasts component.  A memo is recomputed from  *)
(* the cells it depends on; the values for the data a run can store are    *)
(* tabulated once.                                                         *)
(***************************************************************************)

\* Array(7).fill(0) as stored
ZeroPredictions == [i \in 1..7 |-> 0]

\* fetched predictions: predictions || predictions_cpu || [], line 73
PredictionsOf(resp) ==
  IF ~IsNull(resp.predictions) THEN Val(resp.predictions)
  ELSE IF ~IsNull(resp.predictions_cpu) THEN Val(resp.predictions_cpu)
  ELSE <<>>

ForecastDataValues ==
  {Null, Some(ZeroPredictions)} \cup {Some(PredictionsOf(r)) : r \in ForecastResponses}

CapacityDataValues == {Null} \cup {Some(r) : r \in CapacityResponses}

CapacityOf(cd) ==
  IF IsNull(cd) THEN Null
  ELSE Some([capacity |-> NumField(Val(cd).capacity),
             avg_forecast |-> NumField(Val(cd).avg_forecast)])

MetricsMemo == [fd \in ForecastDataValues |-> Metrics(NumList(fd))] @@ <<>>

CapacityRowsMemo ==
  [k \in CapacityDataValues \X ForecastDataValues |->
     CapacityRows(CapacityOf(k[1]), NumList(k[2]))] @@ <<>>

OptCapacityMemo ==
  [fd \in {v \in ForecastDataValues : ~IsNull(v) /\ Len(Val(v)) > 0} |->
     OptCapacity(Val(NumList(fd)))] @@ <<>>

\* the notifications one run of the alert effect raises, by stored data
AlertToastsMemo ==
  [k \in CapacityDataValues \X ForecastDataValues |->
     AlertToasts(CapacityRowsMemo[k], MetricsMemo[k[2]])] @@ <<>>

metrics == MetricsMemo[forecastData]

capacityRows == CapacityRowsMemo[<<capacityData, forecastData>>]

filteredMetrics == FilteredMetrics(metrics, filters.service)

\* the what-if requests a run can issue and the responses it can store
WhatIfRequestValues == [workload : WorkloadValues, traffic : TrafficValues]

WhatIfBackendValues ==
  {Null} \cup {Some(WhatIfResponse(req, shape)) :
                 req \in WhatIfRequestValues, shape \in WhatIfShapes}

WhatIfMemo ==
  [k \in ForecastDataValues \X WorkloadValues \X TrafficValues \X WhatIfBackendValues |->
     WhatIfResults(MetricsMemo[k[1]], k[2], k[3], k[4])] @@ <<>>

whatIfResults == WhatIfMemo[<<forecastData, workloadDelta, trafficDelta, whatIfBackend>>]

\* const region = filters.region || "East-US", line 145
RegionOf(f) == IF f.region = "" THEN "East-US" ELSE f.region

region == RegionOf(filters)

\* the error banner of the Forecasts view is rendered, line 256
ErrorBannerShown == ~IsNull(error) /\ Val(error) # ""

\* the simulated values as displayed, in hundredths, lines 378 and 390
DisplayedSimulatedCpu == ToFixed2(whatIfResults.simulatedCpu)

DisplayedSimulatedStorage == ToFixed2(whatIfResults.simulatedStorage)

(***************************************************************************)
(* The Forecasts component.  An action is one event (a response, a         *)
(* failure, a user's input), the render that follows it and the effects    *)
(* that render triggers.                                                   *)
(***************************************************************************)

\* the alert effect, lines 237-250, runs after a render in which
\* capacityRows or metrics has been recomputed
AlertEffect ==
  /\ toasts' = toasts \o AlertToastsMemo[<<capacityData', forecastData'>>]
  /\ alertRuns' = alertRuns + 1

\* the loadOpt effect, lines 147-158, runs after a render in which
\* forecastData or region has changed
LoadOptEffect ==
  optRequests' =
    IF IsNull(forecastData') \/ Len(Val(forecastData')) = 0 THEN optRequests
    ELSE Append(optRequests,
                [region |-> region',
                 capacity |-> OptCapacityMemo[forecastData']])

\* the requests made in a step that runs the loadOpt effect
CountOpt == Len(optRequests') - Len(optRequests)

\* the state after the first render and its effects: load() awaits
\* fetchForecast7 (lines 67-85), the what-if effect has issued its first
\* request (lines 178-186), loadOpt has returned early (line 149) and the
\* alert effect has run on the placeholder data
ViewInit ==
  /\ filters = [region |-> "", service |-> "", timeHorizon |-> ""]
  /\ currentSlide = 0
  /\ visibleLines = [cpuBase |-> TRUE, cpuSim |-> TRUE, storageBase |-> TRUE,
                     storageSim |-> TRUE]
  /\ workloadDelta = 0
  /\ trafficDelta = 0
  /\ forecastData = Null
  /\ capacityData = Null
  /\ isLoading = TRUE
  /\ error = Null
  /\ optimizationData = Null
  /\ whatIfBackend = Null
  /\ loadPc = "forecast"
  /\ optRequests = <<>>
  /\ whatIfRequests = << [workload |-> 0, traffic |-> 0] >>
  /\ toasts = AlertToastsMemo[<<Null, Null>>]
  /\ alertRuns = 1
  /\ fetchCount = [forecast7 |-> 1, capacityPlanning |-> 0, optimization |-> 0,
                   whatIf |-> 1]

\* fetchForecast7 resolves: lines 73-75, then the render and its effects
ForecastResponds(resp) ==
  /\ loadPc = "forecast"
  /\ forecastData' = Some(PredictionsOf(resp))
  /\ loadPc' = "capacity"
  /\ UNCHANGED <<capacityData, isLoading, error, optimizationData>>
  /\ UNCHANGED <<slideVars, whatIfVars>>
  /\ LoadOptEffect
  /\ AlertEffect
  /\ fetchCount' = [fetchCount EXCEPT !.capacityPlanning = @ + 1,
                                      !.optimization = @ + CountOpt]
  /\ OutsideView

\* a catch block that stores the placeholder data without recording the
\* error: what the properties of the error banner must tell apart from
\* LoadFails
LoadFailsUnrecorded(msg) ==
  /\ error' = error
  /\ forecastData' = Some(ZeroPredictions)
  /\ isLoading' = FALSE
  /\ loadPc' = "done"
  /\ UNCHANGED <<capacityData, optimizationData>>
  /\ UNCHANGED <<slideVars, whatIfVars>>
  /\ LoadOptEffect
  /\ AlertEffect
  /\ fetchCount' = [fetchCount EXCEPT !.optimization = @ + CountOpt]
  /\ OutsideView

\* a catch block that starts the load again: what the properties of the
\* load's requests must tell apart from LoadFails
LoadFailsRetry(msg) ==
  /\ error' = Some(msg)
  /\ forecastData' = Some(ZeroPredictions)
  /\ isLoading' = TRUE
  /\ loadPc' = "forecast"
  /\ UNCHANGED <<capacityData, optimizationData>>
  /\ UNCHANGED <<slideVars, whatIfVars>>
  /\ LoadOptEffect
  /\ AlertEffect
  /\ fetchCount' = [fetchCount EXCEPT !.forecast7 = @ + 1,
                                      !.optimization = @ + CountOpt]
  /\ OutsideView

\* a catch block that keeps predictions already stored: what the properties
\* of a partial failure must tell apart from LoadFails
LoadFailsKeepData(msg) ==
  /\ error' = Some(msg)
  /\ forecastData' = IF IsNull(forecastData) THEN Some(ZeroPredictions) ELSE forecastData
  /\ isLoading' = FALSE
  /\ loadPc' = "done"
  /\ UNCHANGED <<capacityData, optimizationData>>
  /\ UNCHANGED <<slideVars, whatIfVars>>
  /\ LoadOptEffect
  /\ AlertEffect
  /\ fetchCount' = [fetchCount EXCEPT !.optimization = @ + CountOpt]
  /\ OutsideView

\* the catch and finally blocks of load(), lines 77-82, then the render and
\* its effects
LoadFails(msg) ==
  /\ error' = Some(msg)
  /\ forecastData' = Some(ZeroPredictions)
  /\ isLoading' = FALSE
  /\ loadPc' = "done"
  /\ UNCHANGED <<capacityData, optimizationData>>
  /\ UNCHANGED <<slideVars, whatIfVars>>
  /\ LoadOptEffect
  /\ AlertEffect
  /\ fetchCount' = [fetchCount EXCEPT !.optimization = @ + CountOpt]
  /\ OutsideView

\* fetchForecast7 rejects
ForecastFails(msg) ==
  /\ loadPc = "forecast"
  /\ LoadFails(msg)

\* fetchCapacityPlanning resolves: lines 76 and 81, then the render and the
\* alert effect
CapacityResponds(resp) ==
  /\ loadPc = "capacity"
  /\ capacityData' = Some(resp)
  /\ isLoading' = FALSE
  /\ loadPc' = "done"
  /\ UNCHANGED <<forecastData, error, fetchCount>>
  /\ UNCHANGED <<slideVars, optVars, whatIfVars>>
  /\ AlertEffect
  /\ OutsideView

\* fetchCapacityPlanning rejects
CapacityFails(msg) ==
  /\ loadPc = "capacity"
  /\ LoadFails(msg)

\* the filter form submits nf: line 268, then the effects of lines 108 and
\* 115 and, when the region has changed, the loadOpt effect
SubmitFilters(nf) ==
  /\ page = "forecasts"
  /\ RegionOf(nf) # region => fetchCount.optimization < MaxOptRequests
  /\ filters' = nf
  /\ currentSlide' = MinI(0, Len(FilteredMetrics(metrics, nf.service)) - 1)
  /\ UNCHANGED <<forecastData, capacityData, isLoading, error, loadPc>>
  /\ UNCHANGED <<visibleLines, optimizationData, alertVars, whatIfVars>>
  /\ IF RegionOf(nf) # region THEN LoadOptEffect ELSE UNCHANGED optRequests
  /\ fetchCount' = [fetchCount EXCEPT !.optimization = @ + CountOpt]
  /\ OutsideView

\* the Next button, line 117
nextSlide ==
  /\ page = "forecasts"
  /\ currentSlide' = NextSlideOf(currentSlide, Len(filteredMetrics))
  /\ UNCHANGED <<filters, visibleLines, loadVars, alertVars, optVars, whatIfVars>>
  /\ OutsideView

\* the Previous button, line 118
prevSlide ==
  /\ page = "forecasts"
  /\ currentSlide' = PrevSlideOf(currentSlide, Len(filteredMetrics))
  /\ UNCHANGED <<filters, visibleLines, loadVars, alertVars, optVars, whatIfVars>>
  /\ OutsideView

\* the checkbox of chart line k, lines 400-412
ToggleLine(k) ==
  /\ page = "forecasts"
  /\ visibleLines' = [visibleLines EXCEPT ![k] = ~@]
  /\ UNCHANGED <<filters, currentSlide, loadVars, alertVars, optVars, whatIfVars>>
  /\ OutsideView

\* fetchOptimization resolves for the i-th request in flight, line 154
OptResponds(i, shape) ==
  /\ page = "forecasts"
  /\ i \in 1..Len(optRequests)
  /\ optimizationData' = Some(OptResponse(optRequests[i], shape))
  /\ optRequests' = RemoveAt(optRequests, i)
  /\ UNCHANGED <<slideVars, loadVars, alertVars, whatIfVars>>
  /\ OutsideView

\* fetchOptimization rejects for the i-th request in flight, line 155
OptFails(i) ==
  /\ page = "forecasts"
  /\ i \in 1..Len(optRequests)
  /\ optRequests' = RemoveAt(optRequests, i)
  /\ UNCHANGED <<optimizationData, slideVars, loadVars, alertVars, whatIfVars>>
  /\ OutsideView

\* the what-if effect, lines 178-186, runs after a render in which a slider
\* value has changed
WhatIfEffect ==
  /\ whatIfRequests' =
       Append(whatIfRequests,
              [workload |-> workloadDelta',
               traffic |-> trafficDelta'])
  /\ fetchCount' = [fetchCount EXCEPT !.whatIf = @ + 1]

\* the workload slider moves to v, line 375
SetWorkloadDelta(v) ==
  /\ page = "forecasts"
  /\ v # workloadDelta
  /\ fetchCount.whatIf < MaxWhatIfRequests
  /\ workloadDelta' = v
  /\ UNCHANGED <<trafficDelta, whatIfBackend>>
  /\ WhatIfEffect
  /\ UNCHANGED <<forecastData, capacityData, isLoading, error, loadPc>>
  /\ UNCHANGED <<slideVars, alertVars, optVars>>
  /\ OutsideView

\* the traffic slider moves to v, line 387
SetTrafficDelta(v) ==
  /\ page = "forecasts"
  /\ v # trafficDelta
  /\ fetchCount.whatIf < MaxWhatIfRequests
  /\ trafficDelta' = v
  /\ UNCHANGED <<workloadDelta, whatIfBackend>>
  /\ WhatIfEffect
  /\ UNCHANGED <<forecastData, capacityData, isLoading, error, loadPc>>
  /\ UNCHANGED <<slideVars, alertVars, optVars>>
  /\ OutsideView

\* a response handler that drops the response to any request but the one for
\* the slider values shown: what the properties of overlapping requests
\* must tell apart from WhatIfResponds
WhatIfRespondsIfShown(i, shape) ==
  /\ page = "forecasts"
  /\ i \in 1..Len(whatIfRequests)
  /\ whatIfBackend' =
       IF whatIfRequests[i] = [workload |-> workloadDelta, traffic |-> trafficDelta]
       THEN Some(WhatIfResponse(whatIfRequests[i], shape))
       ELSE whatIfBackend
  /\ whatIfRequests' = RemoveAt(whatIfRequests, i)
  /\ UNCHANGED <<workloadDelta, trafficDelta>>
  /\ UNCHANGED <<slideVars, loadVars, alertVars, optVars>>
  /\ OutsideView

\* fetchWhatIf resolves for the i-th request in flight, line 182
WhatIfResponds(i, shape) ==
  /\ page = "forecasts"
  /\ i \in 1..Len(whatIfRequests)
  /\ whatIfBackend' = Some(WhatIfResponse(whatIfRequests[i], shape))
  /\ whatIfRequests' = RemoveAt(whatIfRequests, i)
  /\ UNCHANGED <<workloadDelta, trafficDelta>>
  /\ UNCHANGED <<slideVars, loadVars, alertVars, optVars>>
  /\ OutsideView

\* fetchWhatIf rejects for the i-th request in flight, line 183
WhatIfFails(i) ==
  /\ page = "forecasts"
  /\ i \in 1..Len(whatIfRequests)
  /\ whatIfRequests' = RemoveAt(whatIfRequests, i)
  /\ UNCHANGED <<workloadDelta, trafficDelta, whatIfBackend>>
  /\ UNCHANGED <<slideVars, loadVars, alertVars, optVars>>
  /\ OutsideView

ViewNext ==
  \/ \E resp \in ForecastResponses : ForecastResponds(resp)
  \/ \E msg \in ErrorMessages : ForecastFails(msg)
  \/ \E resp \in CapacityResponses : CapacityResponds(resp)
  \/ \E msg \in ErrorMessages : CapacityFails(msg)
  \/ \E nf \in FilterValues : SubmitFilters(nf)
  \/ nextSlide
  \/ prevSlide
  \/ \E k \in LineKeys : ToggleLine(k)
  \/ \E i \in 1..MaxOptRequests + 1, shape \in OptShapes : OptResponds(i, shape)
  \/ \E i \in 1..MaxOptRequests + 1 : OptFails(i)
  \/ \E v \in WorkloadValues : SetWorkloadDelta(v)
  \/ \E v \in TrafficValues : SetTrafficDelta(v)
  \/ \E i \in 1..MaxWhatIfRequests, shape \in WhatIfShapes : WhatIfResponds(i, shape)
  \/ \E i \in 1..MaxWhatIfRequests : WhatIfFails(i)

(***************************************************************************)
(* The MultiRegionDashboard component.                                     *)
(***************************************************************************)

\* the state after the first render and its effect: loadMultiRegionData
\* awaits fetchMultiRegion, lines 547-562
MultiRegionInit ==
  /\ allRegions = <<>>
  /\ selectedRegions = <<"East US", "West Europe">>
  /\ mrIsLoading = TRUE
  /\ mrError = Null
  /\ horizonSteps = 4
  /\ detailRegion = Null
  /\ mrLoadPc = "fetch"

\* fetchMultiRegion resolves, lines 563-570 and 577.  selectedRegions in the
\* test of line 568 is the value of the first render, which is not empty
MultiRegionResponds(resp) ==
  /\ mrLoadPc = "fetch"
  /\ LET regionsData == IF IsNull(resp.regions) THEN <<>> ELSE Val(resp.regions)
         mounted     == <<"East US", "West Europe">>
     IN  /\ allRegions' = regionsData
         /\ selectedRegions' =
              IF Len(regionsData) > 0 /\ Len(mounted) = 0
              THEN [i \in 1..MinI(2, Len(regionsData)) |-> regionsData[i].name]
              ELSE selectedRegions
  /\ mrIsLoading' = FALSE
  /\ mrLoadPc' = "done"
  /\ UNCHANGED <<mrError, horizonSteps, detailRegion>>
  /\ OutsideMultiRegion

\* fetchMultiRegion rejects, lines 571-577
MultiRegionFails(msg) ==
  /\ mrLoadPc = "fetch"
  /\ mrError' = Some(msg)
  /\ allRegions' = <<>>
  /\ mrIsLoading' = FALSE
  /\ mrLoadPc' = "done"
  /\ UNCHANGED <<selectedRegions, horizonSteps, detailRegion>>
  /\ OutsideMultiRegion

\* the checkbox of the i-th fetched region, lines 678-693
handleToggleRegion(i) ==
  /\ page = "multiRegion"
  /\ ~mrIsLoading
  /\ i \in 1..Len(allRegions)
  /\ selectedRegions' = ToggleRegion(selectedRegions, allRegions[i].name)
  /\ UNCHANGED <<allRegions, mrIsLoading, mrError, horizonSteps, detailRegion, mrLoadPc>>
  /\ OutsideMultiRegion

\* a forecast horizon button, line 701
SetHorizonSteps(n) ==
  /\ page = "multiRegion"
  /\ ~mrIsLoading
  /\ horizonSteps' = n
  /\ UNCHANGED <<allRegions, selectedRegions, mrIsLoading, mrError, detailRegion, mrLoadPc>>
  /\ OutsideMultiRegion

\* the card of the i-th visible region is clicked, line 799
ShowDetail(i) ==
  /\ page = "multiRegion"
  /\ ~mrIsLoading
  /\ i \in 1..Len(VisibleRegions(allRegions, selectedRegions))
  /\ detailRegion' = Some(VisibleRegions(allRegions, selectedRegions)[i])
  /\ UNCHANGED <<allRegions, selectedRegions, mrIsLoading, mrError, horizonSteps, mrLoadPc>>
  /\ OutsideMultiRegion

\* the detail dialog is closed, lines 819 and 823
CloseDetail ==
  /\ page = "multiRegion"
  /\ ~IsNull(detailRegion)
  /\ detailRegion' = Null
  /\ UNCHANGED <<allRegions, selectedRegions, mrIsLoading, mrError, horizonSteps, mrLoadPc>>
  /\ OutsideMultiRegion

\* the error banner of the multi-region view is rendered, line 657
MultiRegionErrorShown == ~IsNull(mrError) /\ Val(mrError) # ""

MultiRegionNext ==
  \/ \E resp \in MultiRegionResponses : MultiRegionResponds(resp)
  \/ \E msg \in ErrorMessages : MultiRegionFails(msg)
  \/ \E i \in 1..3 : handleToggleRegion(i)
  \/ \E n \in HorizonChoices : SetHorizonSteps(n)
  \/ \E i \in 1..3 : ShowDetail(i)
  \/ CloseDetail

(***************************************************************************)
(* The Header component.  A bell click is the handler up to its await; a   *)
(* response or a failure is the rest of the handler for one request.       *)
(***************************************************************************)

\* at most this many fetchAlerts requests are made in one run
MaxAlertRequests == 4

\* the threshold argument of fetchAlerts, line 24
AlertThreshold == 80

\* alerts as the backend lists them
AlertCpu == [type |-> "cpu", message |-> "CPU above threshold", severity |-> "high"]
AlertStorage == [type |-> "storage", message |-> "Storage above threshold", severity |-> "low"]

\* responses of fetchAlerts: the alerts field is an array (possibly empty),
\* is missing, or is the string "none" (held as its characters)
AlertsResponses ==
  { [alerts |-> [kind |-> "array", value |-> <<AlertCpu, AlertStorage>>]],
    [alerts |-> [kind |-> "array", value |-> <<AlertStorage>>]],
    [alerts |-> [kind |-> "array", value |-> << >>]],
    [alerts |-> [kind |-> "undefined", value |-> << >>]],
    [alerts |-> [kind |-> "string", value |-> <<"n", "o", "n", "e">>]] }

\* data.alerts taken as it comes: what the properties of the stored
\* notifications must tell apart from AlertsOf
AlertsOfUnchecked(data) == data.alerts.value

\* Array.isArray(data.alerts) ? data.alerts : [], line 25
AlertsOf(data) == IF data.alerts.kind = "array" THEN data.alerts.value ELSE << >>

\* the entry shown when the request fails, lines 27-33
UnavailableNotice ==
  [type |-> "system",
   message |-> "Notifications unavailable. Backend not responding.",
   severity |-> "low"]

\* the state after the first render, lines 10-12
HeaderInit ==
  /\ showNotifications = FALSE
  /\ notifications = << >>
  /\ notifLoading = FALSE
  /\ alertRequests = << >>
  /\ alertFetchCount = 0

\* a bell that requests the alerts on every click, opening or closing
handleBellClickAlwaysFetch ==
  /\ page = "header"
  /\ alertFetchCount < MaxAlertRequests
  /\ showNotifications' = ~showNotifications
  /\ notifLoading' = TRUE
  /\ alertRequests' = Append(alertRequests, [threshold |-> AlertThreshold])
  /\ alertFetchCount' = alertFetchCount + 1
  /\ UNCHANGED notifications
  /\ OutsideHeader

\* the bell is clicked: lines 19-24, up to the await
handleBellClick ==
  /\ page = "header"
  /\ ~showNotifications => alertFetchCount < MaxAlertRequests
  /\ showNotifications' = ~showNotifications
  /\ IF ~showNotifications
     THEN /\ notifLoading' = TRUE
          /\ alertRequests' = Append(alertRequests, [threshold |-> AlertThreshold])
          /\ alertFetchCount' = alertFetchCount + 1
     ELSE UNCHANGED <<notifLoading, alertRequests, alertFetchCount>>
  /\ UNCHANGED notifications
  /\ OutsideHeader

\* fetchAlerts resolves for the i-th request in flight: lines 25 and 35
AlertsRespond(i, data) ==
  /\ page = "header"
  /\ i \in 1..Len(alertRequests)
  /\ notifications' = AlertsOf(data)
  /\ notifLoading' = FALSE
  /\ alertRequests' = RemoveAt(alertRequests, i)
  /\ UNCHANGED <<showNotifications, alertFetchCount>>
  /\ OutsideHeader

\* fetchAlerts rejects for the i-th request in flight: lines 26-35
AlertsFail(i) ==
  /\ page = "header"
  /\ i \in 1..Len(alertRequests)
  /\ notifications' = <<UnavailableNotice>>
  /\ notifLoading' = FALSE
  /\ alertRequests' = RemoveAt(alertRequests, i)
  /\ UNCHANGED <<showNotifications, alertFetchCount>>
  /\ OutsideHeader

\* the Close button of the popover, lines 84-89
CloseNotifications ==
  /\ page = "header"
  /\ showNotifications
  /\ showNotifications' = FALSE
  /\ UNCHANGED <<notifications, notifLoading, alertRequests, alertFetchCount>>
  /\ OutsideHeader

HeaderNext ==
  \/ handleBellClick
  \/ \E i \in 1..MaxAlertRequests, data \in AlertsResponses : AlertsRespond(i, data)
  \/ \E i \in 1..MaxAlertRequests : AlertsFail(i)
  \/ CloseNotifications

SpecHeaderInit ==
  /\ page = "header" /\ FnIdle /\ ViewIdle /\ MultiRegionIdle
  /\ HeaderInit

SpecHeader == SpecHeaderInit /\ [][HeaderNext]_vars

(***************************************************************************)
(* The application with one of its pages mounted.                          *)
(***************************************************************************)
Init ==
  /\ FnIdle /\ HeaderIdle
  /\ \/ page = "forecasts" /\ ViewInit /\ MultiRegionIdle
     \/ page = "multiRegion" /\ MultiRegionInit /\ ViewIdle

Next ==
  \/ ViewNext
  \/ MultiRegionNext

Spec == Init /\ [][Next]_vars

(***************************************************************************)
(* The Forecasts component when a pending fetch of load() eventually       *)
(* settles: the awaited promise of line 73 or of line 76 is resolved or    *)
(* rejected.                                                               *)
(***************************************************************************)
LoadSettles ==
  \/ \E resp \in ForecastResponses : ForecastResponds(resp)
  \/ \E msg \in ErrorMessages : ForecastFails(msg)
  \/ \E resp \in CapacityResponses : CapacityResponds(resp)
  \/ \E msg \in ErrorMessages : CapacityFails(msg)

\* the Forecasts component with the two sliders left where they are
LoadViewNext ==
  \/ LoadSettles
  \/ \E nf \in FilterValues : SubmitFilters(nf)
  \/ nextSlide
  \/ prevSlide
  \/ \E k \in LineKeys : ToggleLine(k)
  \/ \E i \in 1..MaxOptRequests + 1, shape \in OptShapes : OptResponds(i, shape)
  \/ \E i \in 1..MaxOptRequests + 1 : OptFails(i)
  \/ \E i \in 1..MaxWhatIfRequests, shape \in WhatIfShapes : WhatIfResponds(i, shape)
  \/ \E i \in 1..MaxWhatIfRequests : WhatIfFails(i)

SpecLoadSettlesInit ==
  /\ page = "forecasts" /\ FnIdle /\ HeaderIdle /\ MultiRegionIdle
  /\ ViewInit

SpecLoadSettles ==
  SpecLoadSettlesInit /\ [][LoadViewNext]_vars /\ WF_vars(LoadSettles)

(***************************************************************************)
(* The MultiRegionDashboard component on its own.                          *)
(***************************************************************************)
SpecMultiRegionInit ==
  /\ page = "multiRegion" /\ FnIdle /\ HeaderIdle /\ ViewIdle
  /\ MultiRegionInit

SpecMultiRegion == SpecMultiRegionInit /\ [][MultiRegionNext]_vars

(***************************************************************************)
(* getRisk on its own: the arguments are drawn from RiskForecasts and      *)
(* RiskCapacities (in thousandths), then the function is applied.          *)
(***************************************************************************)
RiskForecasts == {-20000, 0, 30000, 100000, 120500, 170000}
RiskCapacities ==
  {0, 28000, 31500, 33000, 34000, 94000, 94999, 95000, 100000, 105000,
   110000, 110001, 111000, 132550, 161500, 165000, 187000}

RiskInit ==
  /\ page = "getRisk" /\ ViewIdle /\ MultiRegionIdle /\ HeaderIdle
  /\ fnArgs \in [forecast : RiskForecasts, capacity : RiskCapacities]
  /\ fnResult = "none"

CallGetRisk ==
  /\ page = "getRisk"
  /\ fnResult = "none"
  /\ fnResult' = getRisk(Num(fnArgs.forecast), Num(fnArgs.capacity))
  /\ UNCHANGED <<page, fnArgs, viewVars, mrVars, hdVars>>

RiskNext == CallGetRisk

SpecRisk == RiskInit /\ [][RiskNext]_vars

(***************************************************************************)
(* The metrics memo on its own: a prediction list is drawn (in             *)
(* thousandths), then the memo is computed from it.  The lists have 3 or 7 *)
(* to MaxPredLen entries; the first, the seventh and the other entries     *)
(* vary.                                                                   *)
(***************************************************************************)
MaxPredLen == 8

PredValues == {-5000, 0, 600, 2000, 3000, 50000, 80005}

\* the lengths of the lists: shorter than 7, 7 and longer
PredLengths == {3} \cup 7..MaxPredLen

PredLists ==
  { [i \in 1..n |-> IF i = 1 THEN a ELSE IF i = 7 THEN c ELSE b] :
      a \in PredValues, b \in PredValues, c \in PredValues, n \in PredLengths }

MetricsInit ==
  /\ page = "metrics" /\ ViewIdle /\ MultiRegionIdle /\ HeaderIdle
  /\ fnArgs \in PredLists
  /\ fnResult = Null

CallMetrics ==
  /\ page = "metrics"
  /\ fnResult = Null
  /\ fnResult' = Some(Metrics(Some(MapSeq(Num, fnArgs))))
  /\ UNCHANGED <<page, fnArgs, viewVars, mrVars, hdVars>>

MetricsNext == CallMetrics

SpecMetrics == MetricsInit /\ [][MetricsNext]_vars

(***************************************************************************)
(* The whatIfResults memo on its own: a prediction list, the two slider    *)
(* positions (every position of the sliders' range; the traffic slider at  *)
(* the workload slider's position or 20 away from it) and a stored         *)
(* response, or none, are drawn; then the memo and the two displayed       *)
(* values (in hundredths, lines 378 and 390) are computed.                 *)
(***************************************************************************)
PredFifty == <<40000, 42000, 44000, 45000, 46000, 48000, 50000>>
PredSmall == <<100, 100, 100, 100, 100, 100, 4100>>

WhatIfPredLists == {PredFifty, PredHigh, PredSmall}

\* the metrics memo of each list, tabulated once
WhatIfMetricsMemo ==
  [l \in WhatIfPredLists |-> Metrics(Some(MapSeq(Num, l)))] @@ <<>>

SliderRange == SliderMin..SliderMax

WhatIfArgs ==
  { a \in [predictions : WhatIfPredLists, workloadDelta : SliderRange,
           trafficDelta : SliderRange,
           backend : {Null} \cup {Some(WhatIfResponse([workload |-> 0, traffic |-> 0], shape)) :
                                    shape \in WhatIfShapes}] :
      a.trafficDelta - a.workloadDelta \in {-20, 0, 20} }

WhatIfHarnessInit ==
  /\ page = "whatIfResults" /\ ViewIdle /\ MultiRegionIdle /\ HeaderIdle
  /\ fnArgs \in WhatIfArgs
  /\ fnResult = Null

CallWhatIfResults ==
  /\ page = "whatIfResults"
  /\ fnResult = Null
  /\ LET results == WhatIfResults(WhatIfMetricsMemo[fnArgs.predictions],
                                  fnArgs.workloadDelta, fnArgs.trafficDelta,
                                  fnArgs.backend)
     IN  fnResult' = Some([results |-> results,
                           displayedCpu |-> ToFixed2(results.simulatedCpu),
                           displayedStorage |-> ToFixed2(results.simulatedStorage)])
  /\ UNCHANGED <<page, fnArgs, viewVars, mrVars, hdVars>>

WhatIfHarnessNext == CallWhatIfResults

SpecWhatIf == WhatIfHarnessInit /\ [][WhatIfHarnessNext]_vars

(***************************************************************************)
(* The capacityRows memo on its own: a capacity response and a prediction  *)
(* list (in thousandths), either of which may be missing, are drawn; then  *)
(* the memo is computed from them.  Among the predictions are 0 (replaced  *)
(* by avg_forecast), values with three decimals, one halfway between two   *)
(* numerals of two decimals (0.125) and one just above 100, which a        *)
(* capacity of 110 exceeds by a tenth when it is rounded and not before.   *)
(***************************************************************************)
RowValues == {0, 125, 10006, 62500, 100004}

RowLists ==
  { <<a, b, 80005, c>> : a \in RowValues, b \in {125, 71250}, c \in RowValues }
    \cup { <<125>>, << >> }

RowCapacities ==
  { [capacity |-> Some(100000), avg_forecast |-> Some(60500)],
    [capacity |-> Some(110000), avg_forecast |-> Some(125)],
    [capacity |-> Null, avg_forecast |-> Null] }

RowsInit ==
  /\ page = "capacityRows" /\ ViewIdle /\ MultiRegionIdle /\ HeaderIdle
  /\ fnArgs \in [capacityData : {Null} \cup {Some(r) : r \in RowCapacities},
                  forecastData : {Null} \cup {Some(l) : l \in RowLists}]
  /\ fnResult = Null

CallCapacityRows ==
  /\ page = "capacityRows"
  /\ fnResult = Null
  /\ fnResult' = Some(CapacityRows(CapacityOf(fnArgs.capacityData),
                                   NumList(fnArgs.forecastData)))
  /\ UNCHANGED <<page, fnArgs, viewVars, mrVars, hdVars>>

RowsNext == CallCapacityRows

SpecRows == RowsInit /\ [][RowsNext]_vars

(***************************************************************************)
(* getCapacityRecommendation on its own: a region, a metric title and a    *)
(* forecastPct (in thousandths) are drawn, then the function is applied.   *)
(* The regions are those of line 145, the titles those of lines 90-92, and *)
(* the percentages lie below, at, between and above the bounds 50 and 85.  *)
(***************************************************************************)
RecommendationPcts ==
  {-5000, 0, 1, 25500, 49990, 49999, 50000, 50001, 50010, 67500, 84990,
   84999, 85000, 85001, 85010, 92250, 100000, 120000}

RecommendationInit ==
  /\ page = "getCapacityRecommendation"
  /\ ViewIdle /\ MultiRegionIdle /\ HeaderIdle
  /\ fnArgs \in [region : {"East-US", "West-US"},
                 resource : {"CPU Demand", "Storage Usage", "Network Bandwidth"},
                 forecastPct : RecommendationPcts]
  /\ fnResult = Null

CallGetCapacityRecommendation ==
  /\ page = "getCapacityRecommendation"
  /\ fnResult = Null
  /\ fnResult' = Some(getCapacityRecommendation(
                   [region |-> fnArgs.region, resource |-> fnArgs.resource,
                    forecastPct |-> Num(fnArgs.forecastPct)]))
  /\ UNCHANGED <<page, fnArgs, viewVars, mrVars, hdVars>>

RecommendationNext == CallGetCapacityRecommendation

SpecRecommendation == RecommendationInit /\ [][RecommendationNext]_vars


(***************************************************************************)
(* C1.  getRisk returns 'Sufficient' when capacity - forecast >= 0.1 *     *)
(* forecast, otherwise 'Shortage' when capacity - forecast < -0.05 *       *)
(* forecast, otherwise 'Over / Slight risk': always exactly one of the     *)
(* three labels.  With forecast = 100: capacity 111 and 110 give           *)
(* 'Sufficient', 94 gives 'Shortage', 100 and 95 give 'Over / Slight       *)
(* risk'.  The comparisons are those of the language, on binary64 values.  *)
(***************************************************************************)
RiskLabels == {"Sufficient", "Shortage", "Over / Slight risk"}

C1_Sufficient(f, c) == DCmp(DSub(c, f), DMul(DFromRatio(1, 10), f)) >= 0
C1_Shortage(f, c) == DCmp(DSub(c, f), DMul(DFromRatio(-5, 100), f)) < 0

C1_GetRiskClassifies ==
  fnResult # "none" =>
    LET f == Num(fnArgs.forecast)
        c == Num(fnArgs.capacity)
    IN  /\ fnResult \in RiskLabels
        /\ fnResult = "Sufficient" <=> C1_Sufficient(f, c)
        /\ fnResult = "Shortage" <=> (~C1_Sufficient(f, c) /\ C1_Shortage(f, c))
        /\ fnResult = "Over / Slight risk" <=> (~C1_Sufficient(f, c) /\ ~C1_Shortage(f, c))
        /\ fnArgs.forecast = 100000 =>
             /\ fnArgs.capacity \in {110000, 111000} => fnResult = "Sufficient"
             /\ fnArgs.capacity = 94000 => fnResult = "Shortage"
             /\ fnArgs.capacity \in {95000, 100000} => fnResult = "Over / Slight risk"

\* the boundary capacity 110 of forecast 100 has been classified
C1_Witness ==
  fnArgs = [forecast |-> 100000, capacity |-> 110000] /\ fnResult = "Sufficient"

(***************************************************************************)
(* Reading values back as decimals.                                        *)
(***************************************************************************)
\* the number of hundredths x.toFixed(2) spells
Hundredths(x) == ToFixed2(x)

\* x is the Number that a numeral with two fractional digits spells
IsHundredths(x) == x = DFromRatio(Hundredths(x), 100)

MetricOf(ms, id) == CHOOSE m \in {ms[i] : i \in 1..Len(ms)} : m.id = id

(***************************************************************************)
(* C2 as stated.  Every entry i of the storage forecast equals cpu[i] *    *)
(* 0.025 rounded to 2 decimals and every entry of the network forecast     *)
(* equals cpu[i] * 10 rounded to 2 decimals, cpu[i] being the i-th CPU     *)
(* forecast value; the 'current' values are the same functions of cpu[0].  *)
(* The product and toFixed(2) are those of the language.                   *)
(***************************************************************************)
C2_StorageAsStated(cpu) == NumFixed2(DMul(cpu, DFromRatio(25, 1000)))
C2_NetworkAsStated(cpu) == NumFixed2(DMul(cpu, DFromInt(10)))

C2_StorageIsCpuTimes0025 ==
  fnResult # Null =>
    LET ms  == Val(fnResult)
        cpu == MetricOf(ms, "cpu").forecast
        sto == MetricOf(ms, "storage")
        net == MetricOf(ms, "network")
    IN  /\ \A i \in 1..Len(cpu) :
             /\ sto.forecast[i] = C2_StorageAsStated(cpu[i])
             /\ net.forecast[i] = C2_NetworkAsStated(cpu[i])
        /\ sto.current = C2_StorageAsStated(cpu[1])
        /\ net.current = C2_NetworkAsStated(cpu[1])

(***************************************************************************)
(* C2 as amended.  Every CPU forecast value is the fetched value rounded   *)
(* to a nearest hundredth; every storage value is a hundredth nearest to   *)
(* cpu * 0.025, either neighbour when cpu * 0.025 lies exactly halfway     *)
(* between two hundredths (the program multiplies by 0.01 and then by 2.5  *)
(* in binary floating point); every network value is exactly cpu * 10.     *)
(* Checked in exact integer arithmetic on the hundredths: with k the       *)
(* hundredths of cpu, cpu * 0.025 is k / 40 hundredths.                    *)
(***************************************************************************)
C2_NearestStorage(cpu, sto) ==
  /\ IsHundredths(sto)
  /\ Abs(40 * Hundredths(sto) - Hundredths(cpu)) <= 20

C2_ExactNetwork(cpu, net) ==
  /\ IsHundredths(net)
  /\ Hundredths(net) = 10 * Hundredths(cpu)

C2_StorageNearCpuTimes0025 ==
  fnResult # Null =>
    LET ms  == Val(fnResult)
        cpu == MetricOf(ms, "cpu").forecast
        sto == MetricOf(ms, "storage")
        net == MetricOf(ms, "network")
    IN  /\ Len(cpu) = MinI(7, Len(fnArgs))
        /\ Len(sto.forecast) = Len(cpu) /\ Len(net.forecast) = Len(cpu)
        /\ \A i \in 1..Len(cpu) :
             /\ IsHundredths(cpu[i])
             /\ Abs(10 * Hundredths(cpu[i]) - fnArgs[i]) <= 5
             /\ C2_NearestStorage(cpu[i], sto.forecast[i])
             /\ C2_ExactNetwork(cpu[i], net.forecast[i])
        /\ C2_NearestStorage(cpu[1], sto.current)
        /\ C2_ExactNetwork(cpu[1], net.current)

\* the memo has been computed from a list whose first value is 3: 3 * 0.025 is
\* 0.075, halfway between 0.07 and 0.08, and the storage value is 0.07
C2_Witness ==
  /\ fnResult # Null
  /\ fnArgs[1] = 3000
  /\ Hundredths(MetricOf(Val(fnResult), "storage").forecast[1]) = 7

(***************************************************************************)
(* C3 as stated.  For the storage and network metrics the pie 'Used' value *)
(* is the current value divided by the last forecast value, as a rounded   *)
(* percentage clamped to [0, 100], and 'Remaining' is 100 minus that       *)
(* share; both pie values are within [0, 100].  (A last forecast value of  *)
(* 0 leaves the quotient undefined; the statement about it is then not     *)
(* made.)                                                                  *)
(***************************************************************************)
Clamp(lo, n, hi) == MaxI(lo, MinI(hi, n))

C3_PieAsStated(m) ==
  LET last == m.forecast[Len(m.forecast)]
      used == Clamp(0, MathRound(DMul(DDiv(m.current, last), DFromInt(100))), 100)
  IN  /\ ~DIsZero(last) => m.pie.Used = DFromInt(used)
      /\ m.pie.Remaining = DSub(DFromInt(100), m.pie.Used)
      /\ DGe(m.pie.Used, DZero) /\ DGe(DFromInt(100), m.pie.Used)
      /\ DGe(m.pie.Remaining, DZero) /\ DGe(DFromInt(100), m.pie.Remaining)

C3_PieIsCurrentOverLast ==
  fnResult # Null =>
    /\ C3_PieAsStated(MetricOf(Val(fnResult), "storage"))
    /\ C3_PieAsStated(MetricOf(Val(fnResult), "network"))

(***************************************************************************)
(* C3 as amended.  The divisor is the last forecast value, or the current  *)
(* value when the last forecast value is 0, and is never taken smaller     *)
(* than 0.1 for storage and 1 for network.  With p the quotient as a       *)
(* rounded percentage, 'Used' is min(100, p) and 'Remaining' is            *)
(* max(0, 100 - p): 'Used' is at most 100 and 'Remaining' at least 0, and  *)
(* when no fetched value is negative both are within [0, 100] and          *)
(* 'Remaining' is 100 minus 'Used'.                                        *)
(***************************************************************************)
C3_Percent(m, floor) ==
  LET last    == m.forecast[Len(m.forecast)]
      divisor == IF DIsZero(last) THEN m.current ELSE last
      atLeast == IF DLt(divisor, floor) THEN floor ELSE divisor
  IN  MathRound(DMul(DDiv(m.current, atLeast), DFromInt(100)))

C3_PieAsAmended(m, floor, nonNegative) ==
  LET p         == C3_Percent(m, floor)
      used      == IF p > 100 THEN 100 ELSE p
      remaining == IF p > 100 THEN 0 ELSE 100 - p
  IN  /\ m.pie.Used = DFromInt(used)
      /\ m.pie.Remaining = DFromInt(remaining)
      /\ used <= 100 /\ remaining >= 0
      /\ nonNegative => /\ used \in 0..100
                        /\ remaining = 100 - used

C3_PieIsCurrentOverFlooredLast ==
  fnResult # Null =>
    LET nonNegative == \A i \in 1..MinI(7, Len(fnArgs)) : fnArgs[i] >= 0
    IN  /\ C3_PieAsAmended(MetricOf(Val(fnResult), "storage"), DFromRatio(1, 10), nonNegative)
        /\ C3_PieAsAmended(MetricOf(Val(fnResult), "network"), DFromInt(1), nonNegative)

\* the memo has been computed from a list of values 2: storage is 0.05 now and
\* at the end, and the pie shows 0.05 / 0.1 = 50 per cent used
C3_Witness ==
  /\ fnResult # Null
  /\ Len(fnArgs) >= 7 /\ fnArgs[1] = 2000 /\ fnArgs[7] = 2000
  /\ MetricOf(Val(fnResult), "storage").pie.Used = DFromInt(50)

(***************************************************************************)
(* C4.  When no what-if response is stored, the displayed simulated CPU is *)
(* baseCpu * (1 + workloadDelta / 100) and the displayed simulated storage *)
(* is baseStorage * (1 + trafficDelta / 100), each rounded to 2 decimals,  *)
(* the base being the last entry of the metric's forecast, for every       *)
(* slider position in -30..50; base 50 and delta +20 give 60.00.  The      *)
(* product and the rounding are those of the language, and the displayed   *)
(* value is also, in exact arithmetic on the hundredths, a hundredth       *)
(* nearest to base * (100 + delta) / 100.                                  *)
(***************************************************************************)
C4_Factor(delta) == DAdd(DFromInt(1), DDiv(DFromInt(delta), DFromInt(100)))

C4_Local(base, delta) == ToFixed2(DMul(base, C4_Factor(delta)))

C4_Nearest(shown, base, delta) ==
  Abs(100 * shown - Hundredths(base) * (100 + delta)) <= 50

C4_LocalSimulationShown ==
  (fnResult # Null /\ IsNull(fnArgs.backend)) =>
    LET ms          == WhatIfMetricsMemo[fnArgs.predictions]
        baseCpu     == Last(MetricOf(ms, "cpu").forecast)
        baseStorage == Last(MetricOf(ms, "storage").forecast)
        shown       == Val(fnResult)
    IN  /\ shown.results.baseCpu = baseCpu
        /\ shown.results.baseStorage = baseStorage
        /\ shown.displayedCpu = C4_Local(baseCpu, fnArgs.workloadDelta)
        /\ shown.displayedStorage = C4_Local(baseStorage, fnArgs.trafficDelta)
        /\ C4_Nearest(shown.displayedCpu, baseCpu, fnArgs.workloadDelta)
        /\ C4_Nearest(shown.displayedStorage, baseStorage, fnArgs.trafficDelta)
        /\ (Hundredths(baseCpu) = 5000 /\ fnArgs.workloadDelta = 20) =>
             shown.displayedCpu = 6000

\* base 50 and delta +20 have been simulated with no response stored, and
\* 60.00 is displayed
C4_Witness ==
  /\ fnResult # Null
  /\ IsNull(fnArgs.backend)
  /\ fnArgs.predictions = PredFifty
  /\ fnArgs.workloadDelta = 20
  /\ Val(fnResult).displayedCpu = 6000

(***************************************************************************)
(* C5.  Whenever the stored what-if response holds a non-empty             *)
(* simulated_cpu series, the displayed simulated CPU is that series' last  *)
(* element (to 2 decimals) and not the local value, and likewise           *)
(* simulated_storage for storage; when a series is absent or empty the     *)
(* local computation is displayed for that resource.  The choice is made   *)
(* per resource.                                                           *)
(***************************************************************************)
C5_HasSeries(be, field) ==
  /\ ~IsNull(be)
  /\ ~IsNull(Val(be)[field])
  /\ Len(Val(Val(be)[field])) > 0

C5_Shown(be, field, value, displayed, base, delta) ==
  IF C5_HasSeries(be, field)
  THEN LET last == Last(Val(Val(be)[field]))
       IN  /\ value = Num(last)
           /\ displayed = ToFixed2(Num(last))
           /\ Abs(10 * displayed - last) <= 5
  ELSE displayed = C4_Local(base, delta)

C5_BackendPreferredPerResource ==
  fnResult # Null =>
    LET ms    == WhatIfMetricsMemo[fnArgs.predictions]
        shown == Val(fnResult)
    IN  /\ C5_Shown(fnArgs.backend, "simulated_cpu", shown.results.simulatedCpu,
                    shown.displayedCpu, Last(MetricOf(ms, "cpu").forecast),
                    fnArgs.workloadDelta)
        /\ C5_Shown(fnArgs.backend, "simulated_storage", shown.results.simulatedStorage,
                    shown.displayedStorage, Last(MetricOf(ms, "storage").forecast),
                    fnArgs.trafficDelta)

\* the stored response holds a CPU series ending in 61.237 and no storage
\* series: 61.24 is displayed for CPU, and for storage the local 1.25 * 1.2
C5_Witness ==
  /\ fnResult # Null
  /\ C5_HasSeries(fnArgs.backend, "simulated_cpu")
  /\ ~C5_HasSeries(fnArgs.backend, "simulated_storage")
  /\ fnArgs.predictions = PredFifty
  /\ fnArgs.trafficDelta = 20
  /\ Val(fnResult).displayedCpu = 6124
  /\ Val(fnResult).displayedStorage = 150

(***************************************************************************)
(* C6.  CPU and storage are simulated independently: with no what-if       *)
(* response stored, a change of workloadDelta leaves the simulated storage *)
(* value unchanged and a change of trafficDelta leaves the simulated CPU   *)
(* value unchanged, and neither change alters forecastData, the metrics,   *)
(* the base CPU and storage values or the capacity rows.                   *)
(***************************************************************************)
C6_SliderChangeFrame ==
  [][ (page = "forecasts"
         /\ (workloadDelta' # workloadDelta \/ trafficDelta' # trafficDelta)) =>
        /\ forecastData' = forecastData
        /\ metrics' = metrics
        /\ capacityRows' = capacityRows
        /\ whatIfResults'.baseCpu = whatIfResults.baseCpu
        /\ whatIfResults'.baseStorage = whatIfResults.baseStorage
        /\ (IsNull(whatIfBackend) /\ workloadDelta' # workloadDelta) =>
             whatIfResults'.simulatedStorage = whatIfResults.simulatedStorage
        /\ (IsNull(whatIfBackend) /\ trafficDelta' # trafficDelta) =>
             whatIfResults'.simulatedCpu = whatIfResults.simulatedCpu ]_vars

\* the workload slider has been moved to 20 with fetched predictions and no
\* response stored: the simulated storage is still the base storage
C6_Witness ==
  /\ page = "forecasts"
  /\ forecastData = Some(PredHigh)
  /\ IsNull(whatIfBackend)
  /\ workloadDelta = 20 /\ trafficDelta = 0
  /\ ~DIsZero(whatIfResults.baseStorage)
  /\ whatIfResults.simulatedStorage = whatIfResults.baseStorage
  /\ whatIfResults.simulatedCpu # whatIfResults.baseCpu

(***************************************************************************)
(* C7.  Toggling a region twice in a row returns the original selected     *)
(* set (the same members), for every reachable selectedRegions and every   *)
(* region name, selected beforehand or not.                                *)
(***************************************************************************)
C7_Members(selected) == {selected[i] : i \in 1..Len(selected)}

C7_Names ==
  {"East US", "West Europe", "Southeast Asia", "Central India", "Brazil South"}

C7_ToggleTwiceRestores ==
  page = "multiRegion" =>
    \A name \in C7_Names :
      C7_Members(ToggleRegion(ToggleRegion(selectedRegions, name), name))
        = C7_Members(selectedRegions)

\* 'East US' has been toggled off and on again: it is selected as at the
\* start, now after 'West Europe'
C7_Witness ==
  /\ page = "multiRegion"
  /\ selectedRegions = <<"West Europe", "East US">>

(***************************************************************************)
(* C8.  Every run of the alert effect raises the 'CPU (next week)'         *)
(* notification if and only if the last entry of the CPU metric's forecast *)
(* is strictly greater than 80 (exactly 80 raises nothing), and the        *)
(* 'Capacity (Week 4)' notification if and only if the Week 4 capacity row *)
(* has status 'Shortage'; it raises nothing else, and nothing is raised    *)
(* outside a run of the effect.                                            *)
(***************************************************************************)
C8_Count(raised, resource) ==
  Cardinality({i \in 1..Len(raised) : raised[i].resource = resource})

\* the last CPU forecast value, in hundredths, of the metrics of each
\* forecastData a run can store
C8_NextWeekCpu ==
  [fd \in ForecastDataValues |->
     Hundredths(Last(FindMetric(MetricsMemo[fd], "cpu").forecast))] @@ <<>>

C8_AlertEffectRaises ==
  [][ page = "forecasts" =>
        LET raised == SubSeq(toasts', Len(toasts) + 1, Len(toasts'))
            cpuHigh == C8_NextWeekCpu[forecastData'] > 8000
            shortage == FindRow(capacityRows', "Week 4").status = "Shortage"
        IN  IF alertRuns' # alertRuns
            THEN /\ alertRuns' = alertRuns + 1
                 /\ toasts' = toasts \o raised
                 /\ C8_Count(raised, "CPU (next week)") = (IF cpuHigh THEN 1 ELSE 0)
                 /\ C8_Count(raised, "Capacity (Week 4)") = (IF shortage THEN 1 ELSE 0)
                 /\ Len(raised) = C8_Count(raised, "CPU (next week)")
                                    + C8_Count(raised, "Capacity (Week 4)")
            ELSE toasts' = toasts ]_vars

\* the effect has run three times on predictions whose last CPU value is
\* exactly 80.00 and a capacity without shortage, and has raised nothing
C8_Witness ==
  /\ page = "forecasts"
  /\ forecastData = Some(PredLong)
  /\ ~IsNull(capacityData)
  /\ C8_NextWeekCpu[forecastData] = 8000
  /\ alertRuns = 3
  /\ toasts = <<>>

(***************************************************************************)
(* C9.  The alert notification is one-shot: during one mount in which the  *)
(* forecast fetch and the capacity-planning fetch both succeed and the     *)
(* last CPU forecast value exceeds 80, the 'CPU (next week)' notification  *)
(* is raised exactly once, whatever slider and filter changes follow.      *)
(***************************************************************************)
C9_CpuAlertRaisedOnce ==
  (/\ page = "forecasts"
   /\ loadPc = "done"
   /\ IsNull(error)
   /\ C8_NextWeekCpu[forecastData] > 8000) =>
    C8_Count(toasts, "CPU (next week)") = 1

(***************************************************************************)
(* C10 as stated.  Every failing fetch (forecast, capacity-planning,       *)
(* optimization, what-if, multi-region) is caught inside its view, and     *)
(* after the failure the view is in a state that shows an error banner or  *)
(* error string.                                                           *)
(***************************************************************************)
C10_ErrorShown ==
  \/ page = "forecasts" /\ ErrorBannerShown
  \/ page = "multiRegion" /\ MultiRegionErrorShown

C10_LoadFailure ==
  \/ \E msg \in ErrorMessages : ForecastFails(msg)
  \/ \E msg \in ErrorMessages : CapacityFails(msg)

C10_SideFailure ==
  \/ \E i \in 1..MaxOptRequests + 1 : OptFails(i)
  \/ \E i \in 1..MaxWhatIfRequests : WhatIfFails(i)

C10_MultiRegionFailure == \E msg \in ErrorMessages : MultiRegionFails(msg)

C10_EveryFailureShowsError ==
  [][ (C10_LoadFailure \/ C10_SideFailure \/ C10_MultiRegionFailure) =>
        C10_ErrorShown' ]_vars

(***************************************************************************)
(* C10 as amended.  Every failing fetch is caught inside its view.  After  *)
(* a failing forecast or capacity-planning fetch the Forecasts view holds  *)
(* the failure's message in error and shows its banner, and after a        *)
(* failing multi-region fetch the multi-region view does; a failing        *)
(* optimization or what-if fetch is swallowed: it sets no error and shows  *)
(* none, and the stored optimization and what-if responses stay as they    *)
(* were.                                                                   *)
(***************************************************************************)
C10_FailuresCaughtLoadErrorsShown ==
  [][ /\ \A msg \in ErrorMessages :
           (ForecastFails(msg) \/ CapacityFails(msg)) =>
             /\ error' = Some(msg)
             /\ msg # "" => C10_ErrorShown'
             /\ loadPc' = "done" /\ ~isLoading'
      /\ \A msg \in ErrorMessages :
           MultiRegionFails(msg) =>
             /\ mrError' = Some(msg)
             /\ msg # "" => C10_ErrorShown'
             /\ mrLoadPc' = "done" /\ ~mrIsLoading'
      /\ C10_SideFailure =>
           /\ error' = error
           /\ C10_ErrorShown' = C10_ErrorShown
           /\ optimizationData' = optimizationData
           /\ whatIfBackend' = whatIfBackend ]_vars

\* every optimization request of the run has settled and none has stored a
\* response, so each has failed; no error is shown
C10_Witness ==
  /\ page = "forecasts"
  /\ fetchCount.optimization > 0
  /\ optRequests = <<>>
  /\ IsNull(optimizationData)
  /\ ~C10_ErrorShown

(***************************************************************************)
(* C11 as stated.  After a failed load of the Forecasts view (error is     *)
(* non-null) forecastData is exactly seven zeros, capacityData is unset,   *)
(* the three metrics have current value 0 and all-zero forecasts, and no   *)
(* capacity row shows a non-zero forecast or capacity value; after a       *)
(* failed load of the multi-region view allRegions is empty.               *)
(***************************************************************************)
C11_MetricsAllZero ==
  /\ Len(metrics) = 3
  /\ \A i \in 1..Len(metrics) :
       /\ DIsZero(metrics[i].current)
       /\ \A j \in 1..Len(metrics[i].forecast) : DIsZero(metrics[i].forecast[j])

C11_RowsAllZero ==
  \A i \in 1..Len(capacityRows) :
    DIsZero(capacityRows[i].forecast) /\ DIsZero(capacityRows[i].capacity)

C11_FailedLoadShowsPlaceholders ==
  /\ (page = "forecasts" /\ ~IsNull(error)) =>
       /\ forecastData = Some(ZeroPredictions)
       /\ IsNull(capacityData)
       /\ C11_MetricsAllZero
       /\ C11_RowsAllZero
  /\ (page = "multiRegion" /\ ~IsNull(mrError)) => allRegions = <<>>

(***************************************************************************)
(* C12.  Overlapping what-if requests are neither cancelled nor ordered:   *)
(* a slider change leaves every request in flight in flight; each request  *)
(* in flight, the oldest as well as the newest, can settle next with a     *)
(* response, and that response is then stored whatever is stored already;  *)
(* and once every request has settled while whatIfBackend holds the        *)
(* response to other slider values than those shown, that remains so until *)
(* a slider changes.  The state in which the response to the first of two  *)
(* slider changes is the one stored after both have settled is reachable.  *)
(***************************************************************************)
C12_Shown == [workload |-> workloadDelta, traffic |-> trafficDelta]

\* every request has settled and the stored response answers other slider
\* values than those shown
C12_Stale ==
  /\ page = "forecasts"
  /\ whatIfRequests = <<>>
  /\ ~IsNull(whatIfBackend)
  /\ Val(whatIfBackend).req # C12_Shown

C12_SlidersChange == <<workloadDelta, trafficDelta>>' # <<workloadDelta, trafficDelta>>

C12_AnyRequestMaySettle ==
  page = "forecasts" =>
    \A i \in 1..Len(whatIfRequests), shape \in WhatIfShapes :
      ENABLED (/\ WhatIfResponds(i, shape)
               /\ whatIfBackend' = Some(WhatIfResponse(whatIfRequests[i], shape)))

C12_Step ==
  page = "forecasts" =>
    /\ C12_SlidersChange =>
         /\ Len(whatIfRequests') = Len(whatIfRequests) + 1
         /\ SubSeq(whatIfRequests', 1, Len(whatIfRequests)) = whatIfRequests
         /\ Last(whatIfRequests') = C12_Shown'
    /\ (C12_Stale /\ ~C12_SlidersChange) => C12_Stale'

C12_NoCancelNoOrder == [](C12_AnyRequestMaySettle) /\ [][C12_Step]_vars

\* the sliders have changed twice (workload to 20, then traffic to -30),
\* every request has settled, and the response stored is the one to the
\* first change
C12_Witness ==
  /\ C12_Stale
  /\ fetchCount.whatIf = 3
  /\ C12_Shown = [workload |-> 20, traffic |-> SliderMin]
  /\ Val(whatIfBackend).req = [workload |-> 20, traffic |-> 0]

(***************************************************************************)
(* C13.  During one mount of the Forecasts view fetchForecast7 and         *)
(* fetchCapacityPlanning are each requested at most once: fetchForecast7   *)
(* by the mount and fetchCapacityPlanning by the step in which             *)
(* fetchForecast7 resolves.  No other step requests either again: not a    *)
(* filter submission, a slider change, a slide navigation, a toggle of a   *)
(* chart line or the failure of a fetch.                                   *)
(***************************************************************************)
C13_AtMostOnce ==
  page = "forecasts" =>
    /\ fetchCount.forecast7 = 1
    /\ fetchCount.capacityPlanning \in {0, 1}

C13_LoadRequests == <<fetchCount.forecast7, fetchCount.capacityPlanning>>

C13_OtherStep ==
  \/ \E nf \in FilterValues : SubmitFilters(nf)
  \/ \E v \in WorkloadValues : SetWorkloadDelta(v)
  \/ \E v \in TrafficValues : SetTrafficDelta(v)
  \/ nextSlide
  \/ prevSlide
  \/ \E k \in LineKeys : ToggleLine(k)
  \/ \E msg \in ErrorMessages : ForecastFails(msg)
  \/ \E msg \in ErrorMessages : CapacityFails(msg)
  \/ \E i \in 1..MaxOptRequests + 1 : OptFails(i)
  \/ \E i \in 1..MaxWhatIfRequests : WhatIfFails(i)

C13_Step ==
  /\ C13_OtherStep => C13_LoadRequests' = C13_LoadRequests
  /\ (page = "forecasts" /\ C13_LoadRequests' # C13_LoadRequests) =>
       /\ ~IsNull(forecastData') /\ forecastData # forecastData'
       /\ IsNull(error')
       /\ fetchCount'.capacityPlanning = 1

C13_LoadFetchedOnce == [](C13_AtMostOnce) /\ [][C13_Step]_vars

\* fetchCapacityPlanning has failed and the filters, a slider, the slide and
\* a chart line have changed since the mount
C13_Witness ==
  /\ page = "forecasts"
  /\ ~IsNull(error)
  /\ fetchCount.capacityPlanning = 1
  /\ filters.region # ""
  /\ workloadDelta # 0
  /\ currentSlide # 0
  /\ ~visibleLines.cpuSim

(***************************************************************************)
(* C14.  Partial failure is not distinguished.  When fetchCapacityPlanning *)
(* fails after fetchForecast7 has succeeded and its predictions have been  *)
(* stored, the predictions are overwritten by seven zeros and error is     *)
(* set: the cells that load() writes (forecastData, capacityData,          *)
(* isLoading, error), and with them metrics and capacityRows, are then     *)
(* what they are after a failure of fetchForecast7 itself.                 *)
(***************************************************************************)
C14_LoadState == <<forecastData, capacityData, isLoading, error, metrics, capacityRows>>

\* the load's cells after fetchForecast7 has failed with msg
C14_AfterFailure(msg) ==
  <<Some(ZeroPredictions), Null, FALSE, Some(msg),
    MetricsMemo[Some(ZeroPredictions)], CapacityRowsMemo[<<Null, Some(ZeroPredictions)>>]>>

C14_Step ==
  \A msg \in ErrorMessages :
    /\ ForecastFails(msg) => IsNull(forecastData) /\ C14_LoadState' = C14_AfterFailure(msg)
    /\ CapacityFails(msg) => ~IsNull(forecastData) /\ C14_LoadState' = C14_AfterFailure(msg)

C14_PartialFailureAsFailure == [][C14_Step]_vars

\* fetchCapacityPlanning has failed after predictions were stored whose last
\* CPU value raised an alert; the predictions are gone
C14_Witness ==
  /\ page = "forecasts"
  /\ fetchCount.capacityPlanning = 1
  /\ ~IsNull(error)
  /\ forecastData = Some(ZeroPredictions)
  /\ \E i \in 1..Len(toasts) : toasts[i].resource = "CPU (next week)"

(***************************************************************************)
(* C15 as stated.  capacityRows has exactly four rows labelled 'Week 1' to *)
(* 'Week 4' in that order, and in each row gap = capacity - forecast and   *)
(* status = getRisk(forecast, capacity) for the row's own forecast and     *)
(* capacity, whatever capacityData and forecastData the rows are computed  *)
(* from.  The subtraction is the language's.                               *)
(***************************************************************************)
C15_Rows == Val(fnResult)

C15_Computed == page = "capacityRows" /\ ~IsNull(fnResult)

C15_Labelled ==
  /\ Len(C15_Rows) = 4
  /\ \A i \in 1..4 : C15_Rows[i].date = Weeks[i]

C15_OfOwnValues(row) ==
  /\ row.gap = DSub(row.capacity, row.forecast)
  /\ row.status = getRisk(row.forecast, row.capacity)

C15_RowsOfOwnValues ==
  C15_Computed =>
    /\ C15_Labelled
    /\ \A i \in 1..Len(C15_Rows) : C15_OfOwnValues(C15_Rows[i])

(***************************************************************************)
(* C15 as the code has it.  capacityRows has exactly four rows labelled    *)
(* 'Week 1' to 'Week 4' in that order.  When capacityData or forecastData  *)
(* is missing, each row's gap is its capacity - forecast and its status is *)
(* getRisk(forecast, capacity).  Otherwise, with f the fetched value of    *)
(* the week (forecastData[idx], or avg_forecast when that is missing or 0) *)
(* and c the week's capacity: the row's forecast is f rounded to two       *)
(* decimals, its capacity is c, its gap is c - f rounded to two decimals   *)
(* and its status is getRisk(f, c); the gap is within 0.01 of the row's    *)
(* capacity - forecast.                                                    *)
(***************************************************************************)
C15_Fetched(idx) ==
  OrElse(At(Val(NumList(fnArgs.forecastData)), idx),
         OrElse(NumField(Val(fnArgs.capacityData).avg_forecast), DZero))

C15_WeekCapacity(idx) ==
  DAdd(OrElse(NumField(Val(fnArgs.capacityData).capacity), DFromInt(10000)),
       DFromInt(idx * 100))

C15_OfFetchedValues(row, f, c) ==
  /\ row.forecast = NumFixed2(f)
  /\ row.capacity = c
  /\ row.gap = NumFixed2(DSub(c, f))
  /\ row.status = getRisk(f, c)
  /\ Hundredths(row.gap) - Hundredths(DSub(row.capacity, row.forecast)) \in -1..1

C15_RowsOfFetchedValues ==
  C15_Computed =>
    /\ C15_Labelled
    /\ \A i \in 1..Len(C15_Rows) :
         IF IsNull(fnArgs.capacityData) \/ IsNull(fnArgs.forecastData)
         THEN C15_OfOwnValues(C15_Rows[i])
         ELSE C15_OfFetchedValues(C15_Rows[i], C15_Fetched(i - 1), C15_WeekCapacity(i - 1))

\* rows computed from a first prediction of 100.004 and a capacity of 110:
\* the first row shows forecast 100, for which getRisk gives 'Sufficient',
\* and has another status; the last row's gap is not its capacity - forecast
C15_Witness ==
  /\ C15_Computed
  /\ ~IsNull(fnArgs.capacityData) /\ ~IsNull(fnArgs.forecastData)
  /\ C15_Rows[1].forecast = DFromInt(100)
  /\ C15_Rows[1].capacity = DFromInt(110)
  /\ C15_Rows[1].status # "Sufficient"
  /\ C15_Rows[4].gap # DSub(C15_Rows[4].capacity, C15_Rows[4].forecast)

(***************************************************************************)
(* C16 as stated.  For every prediction list the backend may return, the   *)
(* metrics list has exactly three entries with ids cpu, storage, network   *)
(* in that order, and each metric's forecast sequence has exactly 7        *)
(* elements.                                                               *)
(***************************************************************************)
C16_Ids == <<"cpu", "storage", "network">>

C16_ThreeMetricsOfSeven ==
  (page = "metrics" /\ ~IsNull(fnResult)) =>
    /\ Len(Val(fnResult)) = 3
    /\ \A i \in 1..3 :
         /\ Val(fnResult)[i].id = C16_Ids[i]
         /\ Len(Val(fnResult)[i].forecast) = 7

(***************************************************************************)
(* C17.  In every state of the multi-region view visibleRegions is exactly *)
(* the fetched regions whose name is in selectedRegions, in fetched order. *)
(* Consequently, when a load succeeds and none of the fetched names is one *)
(* of the names selected at mount ('East US', 'West Europe'), no region is *)
(* visible, and none becomes visible except by a toggle.                   *)
(***************************************************************************)
C17_Selected == {selectedRegions[i] : i \in 1..Len(selectedRegions)}

\* the fetched regions from the i-th on whose name is selected, in order
RECURSIVE C17_KeepFrom(_)
C17_KeepFrom(i) ==
  IF i > Len(allRegions) THEN << >>
  ELSE IF allRegions[i].name \in C17_Selected
       THEN <<allRegions[i]>> \o C17_KeepFrom(i + 1)
       ELSE C17_KeepFrom(i + 1)

C17_Visible == VisibleRegions(allRegions, selectedRegions)

C17_IsFilter == page = "multiRegion" => C17_Visible = C17_KeepFrom(1)

C17_NoneSelectedAtMount(resp) ==
  /\ ~IsNull(resp.regions)
  /\ \A i \in 1..Len(Val(resp.regions)) :
       Val(resp.regions)[i].name \notin {"East US", "West Europe"}

C17_Step ==
  /\ \A resp \in MultiRegionResponses :
       (MultiRegionResponds(resp) /\ C17_NoneSelectedAtMount(resp)) =>
         /\ allRegions' = Val(resp.regions)
         /\ C17_Visible' = << >>
  /\ (page = "multiRegion" /\ C17_Visible = << >> /\ C17_Visible' # << >>) =>
       \/ allRegions = << >> /\ allRegions' # << >>
       \/ \E i \in 1..3 : handleToggleRegion(i)

C17_VisibleAreSelectedFetched == [](C17_IsFilter) /\ [][C17_Step]_vars

\* the load has succeeded with regions none of which was selected at mount:
\* regions are listed and none is visible
C17_Witness ==
  /\ page = "multiRegion"
  /\ mrLoadPc = "done" /\ IsNull(mrError)
  /\ Len(allRegions) > 0
  /\ selectedRegions = <<"East US", "West Europe">>
  /\ C17_Visible = << >>

(***************************************************************************)
(* C18 as stated.  In every state where the displayed recommendations are  *)
(* taken from the stored optimization response (its recommendation field   *)
(* is non-empty), that response was requested for the currently selected   *)
(* region (filters.region, or 'East-US' when none).                        *)
(***************************************************************************)
C18_FromResponse ==
  /\ page = "forecasts"
  /\ ~IsNull(optimizationData)
  /\ Val(optimizationData).recommendation # ""

C18_ResponseIsForRegion ==
  C18_FromResponse => Val(optimizationData).req.region = region

(***************************************************************************)
(* C19.  In the Header, when the alerts request started by opening the     *)
(* popover fails, notifications becomes exactly one placeholder entry      *)
(* (type 'system', severity 'low') and notifLoading becomes false; when it *)
(* succeeds, notifications becomes the response's alerts list, or the      *)
(* empty list when that field is not an array, and notifLoading becomes    *)
(* false.                                                                  *)
(***************************************************************************)
C19_Placeholder(list) ==
  /\ Len(list) = 1
  /\ list[1].type = "system"
  /\ list[1].severity = "low"

C19_AfterSuccess(data) ==
  /\ data.alerts.kind = "array" => notifications' = data.alerts.value
  /\ data.alerts.kind # "array" => notifications' = << >>
  /\ notifLoading' = FALSE

C19_Step ==
  /\ \A i \in 1..MaxAlertRequests :
       AlertsFail(i) => C19_Placeholder(notifications') /\ notifLoading' = FALSE
  /\ \A i \in 1..MaxAlertRequests, data \in AlertsResponses :
       AlertsRespond(i, data) => C19_AfterSuccess(data)

C19_AlertsSettle == [][C19_Step]_vars

\* the only request made has failed: the popover shows the placeholder
C19_Witness ==
  /\ page = "header"
  /\ alertFetchCount = 1 /\ alertRequests = << >>
  /\ showNotifications
  /\ C19_Placeholder(notifications)
  /\ notifLoading = FALSE

(***************************************************************************)
(* C20 as stated.  In the Header, notifLoading is true in every state in   *)
(* which an alerts request started by a bell click is still in flight,     *)
(* also when the popover has been opened, closed and opened again before   *)
(* the first request settled.                                              *)
(***************************************************************************)
C20_LoadingWhileInFlight ==
  (page = "header" /\ alertRequests # << >>) => notifLoading = TRUE

\* ---------------------------------------------------------------------
\* C21: in the Forecasts view, after every filter submission and every
\* Next/Previous click, currentSlide is an index of filteredMetrics; Next
\* from the last slide shows the first and otherwise the following one,
\* Previous from the first slide shows the last and otherwise the
\* preceding one, and a filter submission leaves currentSlide at 0.
C21_SlideInRangeAndCyclic ==
  /\ [](page = "forecasts" =>
          currentSlide \in 0..(Len(filteredMetrics) - 1))
  /\ [][/\ nextSlide =>
             currentSlide' = IF currentSlide = Len(filteredMetrics) - 1
                             THEN 0 ELSE currentSlide + 1
        /\ prevSlide =>
             currentSlide' = IF currentSlide = 0
                             THEN Len(filteredMetrics) - 1
                             ELSE currentSlide - 1
        /\ (\E nf \in FilterValues : SubmitFilters(nf)) =>
             currentSlide' = 0]_vars

\* the last of three slides is shown, after a filter submission
C21_Witness ==
  /\ page = "forecasts"
  /\ filters.region # ""
  /\ Len(filteredMetrics) = 3
  /\ currentSlide = 2

\* ---------------------------------------------------------------------
\* C22: in the Forecasts view isLoading is true from mount until the load
\* sequence settles and false from then on: it is false exactly when the
\* capacity response has been stored or an error has been recorded, it
\* never goes back to true, and when pending fetches settle it does become
\* false; error becomes non-null only in a step in which a fetch of load()
\* fails, and once non-null it keeps its value.
C22_LoadingUntilSettled ==
  /\ [](page = "forecasts" =>
          (isLoading = TRUE <=> (IsNull(capacityData) /\ IsNull(error))))
  /\ [][page = "forecasts" /\ isLoading = FALSE => isLoading' = FALSE]_vars
  /\ [][page = "forecasts" /\ IsNull(error) /\ ~IsNull(error') =>
          /\ isLoading = TRUE
          /\ \E msg \in ErrorMessages : ForecastFails(msg) \/ CapacityFails(msg)]_vars
  /\ [][page = "forecasts" /\ ~IsNull(error) => error' = error]_vars
  /\ (page = "forecasts") ~> (page = "forecasts" /\ isLoading = FALSE)

\* the load has settled with a failure of the second fetch, after the first
\* one succeeded
C22_Witness ==
  /\ page = "forecasts"
  /\ isLoading = FALSE
  /\ ~IsNull(error)
  /\ fetchCount.capacityPlanning = 1

\* ---------------------------------------------------------------------
\* C23: while capacityData or forecastData is missing the capacity table
\* is the built-in fallback and none of its weeks has status "Shortage";
\* and as long as no capacity-planning response has been stored, no
\* notification for "Capacity (Week 4)" has been raised.
C23_CapacityAlertNeedsCapacityData ==
  page = "forecasts" =>
    /\ (IsNull(capacityData) \/ IsNull(forecastData)) =>
         \A i \in 1..Len(capacityRows) : capacityRows[i].status # "Shortage"
    /\ IsNull(capacityData) =>
         \A i \in 1..Len(toasts) : toasts[i].resource # "Capacity (Week 4)"

\* a "Capacity (Week 4)" notification has been raised, from a stored
\* capacity-planning response
C23_Witness ==
  /\ page = "forecasts"
  /\ ~IsNull(capacityData)
  /\ \E i \in 1..Len(toasts) : toasts[i].resource = "Capacity (Week 4)"

\* ---------------------------------------------------------------------
\* C24: filteredMetrics is all three metrics when the service filter is
\* empty, the CPU metric alone for "Compute", the storage metric alone for
\* "Storage", and all three metrics for any other service; so it is never
\* empty and never the network metric alone.
C24_ServiceFilter ==
  page = "forecasts" =>
    /\ filters.service = "" => filteredMetrics = metrics
    /\ filters.service = "Compute" =>
         filteredMetrics = << FindMetric(metrics, "cpu") >>
    /\ filters.service = "Storage" =>
         filteredMetrics = << FindMetric(metrics, "storage") >>
    /\ filters.service \notin {"", "Compute", "Storage"} =>
         filteredMetrics = metrics
    /\ Len(metrics) = 3
    /\ Len(filteredMetrics) > 0
    /\ filteredMetrics # << FindMetric(metrics, "network") >>

\* a service other than Compute and Storage has been submitted and all
\* three metrics are shown
C24_Witness ==
  /\ page = "forecasts"
  /\ filters.service = "Network"
  /\ Len(filteredMetrics) = 3
  /\ ~IsNull(forecastData)

\* ---------------------------------------------------------------------
\* C25: in the multi-region view selectedRegions never holds a name twice,
\* and a region toggle changes the membership of the toggled name only: the
\* name is selected after the toggle exactly when it was not before, the
\* other names are the same, in the same order, and allRegions is
\* unchanged.
C25_ToggleOneName ==
  /\ [](page = "multiRegion" =>
          \A i, j \in 1..Len(selectedRegions) :
             selectedRegions[i] = selectedRegions[j] => i = j)
  /\ [][\A i \in 1..Len(allRegions) :
          handleToggleRegion(i) =>
            LET name == allRegions[i].name
            IN  /\ (\E k \in 1..Len(selectedRegions') : selectedRegions'[k] = name)
                     <=> ~(\E k \in 1..Len(selectedRegions) : selectedRegions[k] = name)
                /\ SelectSeq(selectedRegions', LAMBDA r : r # name)
                     = SelectSeq(selectedRegions, LAMBDA r : r # name)
                /\ allRegions' = allRegions]_vars

\* three toggles have removed "East US", added "Southeast Asia" and added
\* "East US" again, behind the others
C25_Witness ==
  /\ page = "multiRegion"
  /\ selectedRegions = <<"West Europe", "Southeast Asia", "East US">>

\* ---------------------------------------------------------------------
\* C26: getCapacityRecommendation gives each forecastPct exactly one
\* level: "High Load" with delta 12 when forecastPct >= 85, "Low Load" with
\* delta 15 when forecastPct <= 50, "Moderate Load" with delta 0 when
\* forecastPct lies strictly between 50 and 85; region, resource and
\* forecastPct are returned as they were passed.
C26_RecommendationLevels ==
  (page = "getCapacityRecommendation" /\ fnResult # Null) =>
    LET pct == fnArgs.forecastPct
    IN  /\ pct >= 85000 =>
             Val(fnResult).level = "High Load" /\ Val(fnResult).delta = 12
        /\ pct <= 50000 =>
             Val(fnResult).level = "Low Load" /\ Val(fnResult).delta = 15
        /\ (50000 < pct /\ pct < 85000) =>
             Val(fnResult).level = "Moderate Load" /\ Val(fnResult).delta = 0
        /\ Val(fnResult).region = fnArgs.region
        /\ Val(fnResult).resource = fnArgs.resource
        /\ Val(fnResult).forecastPct = Num(pct)

\* the function has been applied to a forecastPct of exactly 85
C26_Witness ==
  /\ page = "getCapacityRecommendation"
  /\ fnArgs.forecastPct = 85000
  /\ fnResult # Null
  /\ Val(fnResult).level = "High Load"
  /\ Val(fnResult).text = "Increase " \o fnArgs.resource \o " capacity by +12%"

\* ---------------------------------------------------------------------
\* C27: in the Header a bell click flips showNotifications; it issues one
\* alerts request, with threshold 80, when it opens the popover, and none
\* when it closes it; no other step issues a request; the Close button
\* hides the popover and leaves notifications, notifLoading and the
\* requests as they were.
C27_BellAndClose ==
  [][/\ handleBellClick =>
          /\ showNotifications' = ~showNotifications
          /\ showNotifications' =>
               /\ alertFetchCount' = alertFetchCount + 1
               /\ alertRequests' = Append(alertRequests, [threshold |-> 80])
          /\ ~showNotifications' =>
               /\ alertFetchCount' = alertFetchCount
               /\ alertRequests' = alertRequests
     /\ alertFetchCount' # alertFetchCount =>
          handleBellClick /\ ~showNotifications /\ showNotifications'
     /\ CloseNotifications =>
          /\ showNotifications' = FALSE
          /\ UNCHANGED <<notifications, notifLoading, alertRequests,
                         alertFetchCount>>]_vars

\* the popover has been opened, and hidden again while the request of the
\* opening click is in flight; then it has been opened a second time
C27_Witness ==
  /\ page = "header"
  /\ showNotifications
  /\ alertFetchCount = 2
  /\ Len(alertRequests) = 2
  /\ notifLoading
====
